---- MODULE Spec2Model ----
(***************************************************************************)
(* Download task queue and concurrent transfer manager of the Telegram     *)
(* downloader bot (telegram_downloader_bot.py, snapshots 20250407 and      *)
(* 20250402).                                                              *)
(*                                                                         *)
(* Sizes are counted in units of 10 MiB, the configured chunk being one    *)
(* unit, so that the 20 MiB transport threshold is 2 units.                *)
(*                                                                         *)
(* Spec       the DownloadManager of snapshot 20250407: handle_media,      *)
(*            add_task, the dispatch loop, _download_file with both        *)
(*            transports, verification, statistics.                        *)
(* SpecRun    the same program with at most MaxRunMsgs messages arriving.  *)
(* SpecQueue  the same program with each transport call taken as one step. *)
(* SpecLive   SpecQueue with the dispatch loop scheduled fairly.            *)
(* SpecWait   SpecRun with the clock followed through the sleeps between    *)
(*            attempts (in Spec and SpecRun a sleep is a step that leaves   *)
(*            the clock alone).                                             *)
(* SpecTracker  a ProgressTracker with its RateLimiter, driven on its own.  *)
(* SpecBatch  media groups of snapshot 20250402: handle_media,              *)
(*            process_media_group, batch tracker, _download_file.           *)
(* SpecVerify  _verify_download on any file, sizes in KB.                  *)
(* SpecStats  a StatsManager saving and loading download_stats.json.       *)
(* SpecLimiter  a RateLimiter called by several coroutines.                *)
(* SpecSpeed  a SpeedLimiter on the chunks of one transfer.                *)
(* SpecShutdown  SpecRun with TelegramDownloader._shutdown.                *)
(* SpecProgress  SpecTracker with another user of the chat's limiter.       *)
(* SpecBatchProgress  a BatchProgressTracker of snapshot 20250407.         *)
(* SpecConnection  TelegramClientManager.check_connection.                 *)
(* SpecBatchDownloader  TelegramMediaDownloader.download_batch.            *)
(* SpecTokenBucket  the token-bucket RateLimiter of telegram/rate_limiter. *)
(* SpecAsyncLimiter  the AsyncRateLimiter of telegram/rate_limiter.        *)
(***************************************************************************)
EXTENDS Integers, Sequences, FiniteSets, TLC

VARIABLES
    max_concurrent_downloads, \* DownloadManager.max_concurrent_downloads (config)
    msgs,                     \* incoming media messages and their handler's position
    tasks,                    \* every DownloadTask created so far, by creation order
    download_queue,           \* DownloadManager.download_queue (task ids)
    download_semaphore,       \* DownloadManager.download_semaphore._value
    active_downloads,         \* DownloadManager.active_downloads: set of <<key, task>>
    dl,                       \* the dispatch loop: position, task in hand, attempt
    tracker,                  \* the ProgressTracker of the task in hand
    fs,                       \* the download directory: path -> size, Absent if none
    download_stats,           \* StatsManager.stats
    startOrder,               \* history: task ids in the order they began downloading
    now,                      \* time.time(), in seconds
    rate_limiter,             \* RateLimiter.last_update: key -> time, Never if none
    batch_trackers,           \* DownloadManager.batch_trackers: group -> tracker, 0 if none
    pending_media_groups,     \* DownloadManager.pending_media_groups
    bts,                      \* every BatchProgressTracker created so far
    timers,                   \* call_later(3.0, process_media_group): pending, per group
    procs,                    \* the process_media_group coroutines started so far
    created,                  \* history: <<batch_id, file_id>> of every batch task created
    verification,             \* a call of _verify_download: the file, the result
    stats_manager,            \* a StatsManager with its download_stats.json
    limiter,                  \* RateLimiter.lock, the coroutines calling the limiter
    speed_limiter,            \* a SpeedLimiter, its clock and what it has let through
    shutdown,                 \* how far TelegramDownloader._shutdown has got
    batch_progress,           \* a BatchProgressTracker and the messages it has sent
    connection,               \* a call of TelegramClientManager.check_connection
    batch_downloader,         \* TelegramMediaDownloader.download_batch and its downloads
    token_bucket,             \* the token-bucket RateLimiter of telegram/rate_limiter.py
    async_limiter             \* an AsyncRateLimiter and the calls made through it

vars == <<max_concurrent_downloads, msgs, tasks, download_queue, download_semaphore,
          active_downloads, dl, tracker, fs, download_stats, startOrder, now,
          rate_limiter, batch_trackers, pending_media_groups, bts, timers, procs,
          created, verification, stats_manager, limiter, speed_limiter, shutdown,
          batch_progress, connection, batch_downloader, token_bucket, async_limiter>>

\* the components driven on their own, which the steps of the bot leave alone
moreVars == <<batch_progress, connection, batch_downloader, token_bucket, async_limiter>>
sideVars == <<verification, stats_manager, limiter, speed_limiter, shutdown, moreVars>>

\* the media groups' state
batchVars == <<batch_trackers, pending_media_groups, bts, timers, procs, created>>
\* what the download manager's actions leave alone
auxVars == <<now, rate_limiter, batchVars>>
\* what the tracker's own operations leave alone
managerVars == <<sideVars, max_concurrent_downloads, msgs, tasks, download_queue,
                 download_semaphore, active_downloads, dl, fs, download_stats,
                 startOrder>>

----
(* Bounds of the model *)
MaxMsgs == 2
MaxFileIds == 2
MaxConcurrent == 2
max_retries == 1
MaxRunMsgs == 1
StartTime == 10
MaxElapsed == 11
MaxBytes == 4
MaxCompletes == 2
MaxGroups == 1
MaxFloodWait == 8
MaxFileKB == 10
MaxStatsChanges == 2
RecordLen == 2
MaxCallers == 2
MaxLimiterElapsed == 4
MaxSpeedTicks == 10
MaxChunkMb == 3
MaxFileMb == 6
MaxBatchFiles == 2

(* Program constants *)
TelethonThreshold == 2
verify_downloads == TRUE
progress_update_interval == 5
min_interval == 2
retry_delay == 5
TwoKB == 2

Msgs == 1..MaxMsgs
Groups == 1..MaxGroups
FileIds == 1..MaxFileIds
Absent == -1
Paths == FileIds \X (0..MaxMsgs)
NoTask == 0
Never == -1
\* RateLimiter keys: the chat, and f"notify_{chat_id}"
Keys == {"chat", "notify"}

\* the size Telegram announces for each file: 2 units (Bot API), 3 units (over the
\* Telethon threshold), unknown (0)
FileSize(fid) == CASE fid % 3 = 1 -> 2 [] fid % 3 = 2 -> 3 [] OTHER -> 0
Sizes == {FileSize(f) : f \in FileIds}

----
(* Helpers *)
Max(a, b) == IF a >= b THEN a ELSE b

Exists(path) == fs[path] # Absent

\* TelegramBot._get_unique_file_path: the plain name, or the first free name_k
RECURSIVE FreeCounter(_, _)
FreeCounter(fid, k) ==
    IF k >= MaxMsgs \/ ~Exists(<<fid, k>>) THEN k ELSE FreeCounter(fid, k + 1)

UniquePath(fid) ==
    IF ~Exists(<<fid, 0>>) THEN <<fid, 0>> ELSE <<fid, FreeCounter(fid, 1)>>

\* handle_media's duplicate check over the queue
InQueue(fid) == \E i \in 1..Len(download_queue) : tasks[download_queue[i]].file_id = fid

\* deque.pop(): the wrong end of the queue
QueuePopRight(q) == <<q[Len(q)], SubSeq(q, 1, Len(q) - 1)>>

\* deque.popleft(): <<the task taken, the queue left>>
QueuePop(q) == <<Head(q), Tail(q)>>

\* f"{task.chat_id}_{task.file_id}" (one chat)
DownloadKey(t) == tasks[t].file_id

ActivePut(a, key, t) == {e \in a : e[1] # key} \cup {<<key, t>>}
\* the entry is left behind
ActiveDelForgotten(a, key) == a

\* del self.active_downloads[download_key]
ActiveDel(a, key) == {e \in a : e[1] # key}

\* FloodWaitError.seconds: a short wait and one longer than the first backoff
FloodWaits == {2, MaxFloodWait}

\* 0.8 + 0.4 * random.random(), in tenths: the two ends of the range
Jitters == {8, 12}

RECURSIVE Pow(_, _)
Pow(b, n) == IF n = 0 THEN 1 ELSE b * Pow(b, n - 1)

\* wait_time = self.retry_delay * (1.5 ** attempt) * (0.8 + 0.4 * random.random()),
\* in whole seconds
Backoff(attempt, jitter) ==
    (retry_delay * Pow(3, attempt) * jitter) \div (Pow(2, attempt) * 10)

\* for attempt in range(self.max_retries + 2): one round too many
LoopOneMore(attempt) == attempt + 1 < max_retries + 2

\* for attempt in range(self.max_retries + 1)
LoopContinues(attempt) == attempt + 1 < max_retries + 1
\* if attempt < self.max_retries
RetryAllowed(attempt) == attempt < max_retries

\* if actual_size < expected_size: no tolerance
VerifyFileNoTolerance(exists, readable, actual_size, expected_size, padded) ==
    IF ~exists THEN FALSE
    ELSE IF expected_size # 0 /\ actual_size < expected_size THEN FALSE
    ELSE IF ~readable THEN FALSE
    ELSE ~padded

\* DownloadManager._verify_download on what it looks at: os.path.exists, the
\* size against expected_size * 0.9, open and read (an OSError is caught:
\* return False), the null-byte test of the two chunks
VerifyFile(exists, readable, actual_size, expected_size, padded) ==
    IF ~exists THEN FALSE
    ELSE IF expected_size # 0 /\ 10 * actual_size < 9 * expected_size THEN FALSE
    ELSE IF ~readable THEN FALSE
    ELSE ~padded

\* DownloadManager._verify_download on a file the bot has just written; padded:
\* the file is over 2 KB and its first or last 1 KB is null bytes only
VerifyDownload(path, expected_size, padded) ==
    VerifyFile(Exists(path), TRUE, fs[path], expected_size, padded)

\* ProgressTracker.__init__; progress and finals count the messages the sink took,
\* completions the calls of complete, sent is the byte count of the last progress
\* message (Never if there is none)
NewTracker(total) ==
    [total_size |-> total, downloaded |-> 0, active |-> TRUE, last_update |-> 0,
     last_update_time |-> 0, sent |-> Never, progress |-> 0, finals |-> 0,
     completions |-> 0]

\* ProgressTracker._should_update_message, for a text that differs from the last
\* one; with total_size = 0 the percentage raises ZeroDivisionError
ShouldUpdateMessage(tr) ==
    IF now - tr.last_update_time < progress_update_interval THEN FALSE
    ELSE \/ now - tr.last_update_time > 5
         \/ /\ tr.total_size > 0
            /\ LET last == IF tr.sent = Never THEN 0
                           ELSE IF tr.sent > tr.total_size THEN tr.total_size ELSE tr.sent
                   diff == IF tr.downloaded >= last THEN tr.downloaded - last
                           ELSE last - tr.downloaded
               IN 100 * diff > tr.total_size

\* ProgressTracker.send_progress; editOk: the sink takes the edit
SendProgress(tr, editOk) ==
    IF ~tr.active THEN tr
    ELSE IF tr.downloaded # tr.sent /\ ShouldUpdateMessage(tr) /\ editOk
         THEN [tr EXCEPT !.progress = @ + 1, !.sent = tr.downloaded,
                         !.last_update_time = now]
         ELSE tr

\* ProgressTracker.update
TrackerUpdate(tr, chunk_size, editOk) ==
    LET t == [tr EXCEPT !.downloaded = @ + chunk_size]
    IN IF now - t.last_update > progress_update_interval /\ t.active
       THEN SendProgress([t EXCEPT !.last_update = now], editOk)
       ELSE t

\* RateLimiter.wait_if_needed: the time at which it returns
WaitedUntil(key) ==
    IF rate_limiter[key] # Never /\ now - rate_limiter[key] < min_interval
    THEN rate_limiter[key] + min_interval
    ELSE now

WaitIfNeeded(key) ==
    /\ now' = WaitedUntil(key)
    /\ rate_limiter' = [rate_limiter EXCEPT ![key] = WaitedUntil(key)]

\* ProgressTracker.complete: always sends the final message, a sink failure is logged
TrackerComplete(tr, sinkOk) ==
    [tr EXCEPT !.active = FALSE, !.completions = @ + 1,
               !.finals = IF sinkOk THEN @ + 1 ELSE @]

\* history of the task in hand: attempts begun, attempts failed, bytes received in
\* failed attempts, the transport's return value, the verified file's padding,
\* when the latest attempt began, the attempt a FloodWaitError answered and the
\* time its wait ends, the attempt an authorization error answered, the number
\* of attempts made when verification first rejected the file
IdleDl == [pc |-> "idle", task |-> NoTask, attempt |-> 0, transport |-> "none",
           success |-> FALSE, remote |-> 0, current |-> 0,
           attempts |-> 0, failures |-> 0, lost |-> 0, returned |-> FALSE,
           padded |-> FALSE, errored |-> FALSE, bt |-> 0,
           began_at |-> Never, flooded |-> 0, flood_until |-> Never,
           fatal_at |-> 0, rejected_at |-> 0]

\* DownloadStats()
NewStats == [total_downloads |-> 0, successful_downloads |-> 0, failed_downloads |-> 0,
             total_bytes |-> 0, peak_concurrent |-> 0]

\* a media message not yet handled; the fields are its handler's locals, and of
\* add_task its queue_position (pos), whether it edited the status message and
\* the value it returned to the handler (0 for None)
NewMsg == [st |-> "new", file_id |-> 0, file_size |-> 0, path |-> <<0, 0>>, pos |-> 0,
           group |-> 0, bt |-> 0, collecting |-> FALSE, edited |-> FALSE, result |-> 0]

\* a DownloadTask nothing refers to any more: only its status is kept
Released(t) == [file_id |-> 0, file_size |-> 0, path |-> <<0, 0>>, status |-> t.status,
                retries |-> 0, batch_id |-> 0]

\* no call of _verify_download under way
NoVerification == [exists |-> FALSE, readable |-> FALSE, size |-> 0, expected_size |-> 0,
                   first_null |-> FALSE, last_null |-> FALSE, result |-> "none"]

\* StatsManager.__init__ without a statistics file: the process is up, the
\* statistics are new (counted by their total_downloads), the file is absent;
\* written is the number of pieces of the JSON text in the file, RecordLen
\* when the record is whole; loaded tells what the last _load_stats found
NewStatsManager ==
    [pc |-> "up", total_downloads |-> 0, loaded |-> "none",
     file |-> [exists |-> FALSE, total_downloads |-> 0, written |-> 0]]

Callers == 1..MaxCallers

\* RateLimiter.__init__ and its callers: lock is the caller holding self.lock (0
\* if free); a caller is outside a call or asleep inside wait_if_needed; history:
\* the times of the last two True results of can_update per key, and the last
\* call of can_update with the timestamp of its key before and after it
NewLimiter ==
    [lock |-> 0,
     callers |-> [c \in Callers |-> [pc |-> "out", key |-> "chat", wake |-> Never]],
     prev_true |-> [k \in Keys |-> Never],
     last_true |-> [k \in Keys |-> Never],
     last_call |-> [key |-> "none", result |-> FALSE, before |-> Never, at |-> Never,
                    after |-> Never]]

\* SpeedLimiter.__init__(max_speed_mbps), created at time 0.  Its time is in ticks
\* of half a second, sizes are in Mb (2^20 bits); admitted[t] is what limit has
\* let through at tick t
NewSpeedLimiter(max_speed_mbps) ==
    [max_speed_mbps |-> max_speed_mbps, last_check |-> 0, bytes_since_check |-> 0,
     clock |-> 0, admitted |-> [t \in 0..MaxSpeedTicks |-> 0]]

\* BatchProgressTracker.__init__ for a batch of MaxBatchFiles files; text is the
\* text last sent, told by the counters it shows, sent counts the edits made
NewBatchProgress ==
    [active |-> TRUE, last_update |-> 0, completed_files |-> 0, failed_files |-> 0,
     total_files |-> MaxBatchFiles, last_progress_message |-> <<>>, sent |-> 0]

\* the components of the later sections are at rest
\* TelegramClientManager.__init__: self.client = None, self.connected = False;
\* no call of check_connection is under way
NewConnection ==
    [pc |-> "idle", client |-> FALSE, connected |-> FALSE, retry_count |-> 0,
     probes |-> 0, slept |-> 0, result |-> FALSE, calls |-> 0]

\* media of one download_batch call, and DownloadConfig.max_concurrent_downloads
\* (3 by default), taken smaller than the list so that downloads have to wait
MaxBatchMedia == 3
BatchConcurrent == 2

Media == 1..MaxBatchMedia

\* TelegramMediaDownloader.__init__: asyncio.Semaphore(max_concurrent_downloads);
\* no download_batch under way
NewBatchDownloader ==
    [download_semaphore |-> BatchConcurrent,
     pc |-> [i \in Media |-> "none"],
     result |-> [i \in Media |-> "none"],
     peak |-> 0,
     gathered |-> FALSE]

\* RateLimiterConfig: burst_limit = 3 tokens, default_limit = 1.0 token per
\* second.  Tokens are a float: they are counted in parts of 1/TokenScale token
\* and the clock of the limiter in steps of 1/TokenScale second
burst_limit == 3
default_limit == 1
TokenScale == 2
MaxBucketClock == 3

\* RateLimiter.__init__: self._limits = {}; no wait() under way
NewTokenBucket ==
    [limits |-> [k \in Keys |-> [present |-> FALSE, tokens |-> 0, last_refill |-> 0]],
     clock |-> 0,
     last_call |-> [key |-> "none", present |-> FALSE, tokens |-> 0, last_refill |-> 0,
                    at |-> 0, result |-> FALSE],
     waiter |-> [pc |-> "idle", key |-> "none", start_time |-> 0, result |-> FALSE]]

\* AsyncRateLimiter(interval = 1.0), in steps of half a second; time.time()
\* is far from 0, the default of self._last_call.get(key, 0)
interval == 2
MaxAsyncClock == 5

\* AsyncRateLimiter.__init__: self._last_call = {}, the lock is free and no
\* call is under way
NewAsyncLimiter ==
    [lock |-> 0,
     last_call |-> [k \in Keys |-> 0],
     clock |-> interval,
     callers |-> [c \in Callers |-> [pc |-> "out", key |-> "none", wake |-> 0,
                                      waited |-> FALSE]]]

InitMore ==
    /\ batch_progress = NewBatchProgress
    /\ connection = NewConnection
    /\ batch_downloader = NewBatchDownloader
    /\ token_bucket = NewTokenBucket
    /\ async_limiter = NewAsyncLimiter

\* the components driven on their own are at rest
InitSide ==
    /\ verification = NoVerification
    /\ stats_manager = NewStatsManager
    /\ limiter = NewLimiter
    /\ speed_limiter = NewSpeedLimiter(0)
    /\ shutdown = "running"
    /\ InitMore

----
Init ==
    /\ InitSide
    /\ max_concurrent_downloads \in 1..MaxConcurrent
    /\ msgs = [m \in Msgs |-> NewMsg]
    /\ tasks = <<>>
    /\ download_queue = <<>>
    /\ download_semaphore = max_concurrent_downloads
    /\ active_downloads = {}
    /\ dl = IdleDl
    /\ tracker = NewTracker(0)
    /\ fs = [p \in Paths |-> Absent]
    /\ download_stats = NewStats
    /\ startOrder = <<>>
    /\ now = StartTime
    /\ rate_limiter = [k \in Keys |-> Never]
    /\ batch_trackers = [g \in Groups |-> 0]
    /\ pending_media_groups = {}
    /\ bts = <<>>
    /\ timers = [g \in Groups |-> 0]
    /\ procs = <<>>
    /\ created = <<>>

----
(* TelegramBot.handle_media, snapshot 20250407 *)

\* up to the await of the acknowledgement message
HandleMedia(m, fid) ==
    /\ msgs[m].st = "new"
    /\ \A k \in Msgs : k < m => msgs[k].st # "new"
    /\ msgs' = [msgs EXCEPT ![m] =
                  IF InQueue(fid)
                  THEN [@ EXCEPT !.st = "dup"]
                  ELSE [@ EXCEPT !.st = "ack", !.file_id = fid, !.file_size = FileSize(fid),
                                 !.path = UniquePath(fid)]]
    /\ UNCHANGED auxVars
    /\ UNCHANGED sideVars
    /\ UNCHANGED <<max_concurrent_downloads, tasks, download_queue, download_semaphore,
                   active_downloads, dl, tracker, fs, download_stats, startOrder>>

\* self.download_queue.appendleft(task)
EnqueueLeft(q, t) == <<t>> \o q

\* async with self.queue_lock: self.download_queue.append(task)
Enqueue(q, t) == Append(q, t)

\* DownloadManager.add_task, called when the acknowledgement was sent
AddTask(m) ==
    /\ msgs[m].st = "ack"
    /\ tasks' = Append(tasks, [file_id |-> msgs[m].file_id, file_size |-> msgs[m].file_size,
                               path |-> msgs[m].path, status |-> "queued", retries |-> 0,
                               batch_id |-> 0])
    /\ download_queue' = Enqueue(download_queue, Len(tasks) + 1)
    /\ LET queue_position == Len(Enqueue(download_queue, Len(tasks) + 1))
       IN msgs' = [msgs EXCEPT ![m] = [NewMsg EXCEPT !.st = "done",
                                                     !.pos = queue_position,
                                                     !.edited = queue_position > 1,
                                                     !.result = 0]]
    /\ UNCHANGED auxVars
    /\ UNCHANGED sideVars
    /\ UNCHANGED <<max_concurrent_downloads, download_semaphore, active_downloads, dl,
                   tracker, fs, download_stats, startOrder>>

----
(* DownloadManager._process_download_queue *)

PopTask ==
    /\ dl.pc = "idle"
    /\ download_queue # <<>>
    /\ dl' = [dl EXCEPT !.pc = "acquire", !.task = QueuePop(download_queue)[1]]
    /\ download_queue' = QueuePop(download_queue)[2]
    /\ UNCHANGED auxVars
    /\ UNCHANGED sideVars
    /\ UNCHANGED <<max_concurrent_downloads, msgs, tasks, download_semaphore,
                   active_downloads, tracker, fs, download_stats, startOrder>>

\* async with self.download_semaphore: status, start message
AcquireSlot ==
    /\ dl.pc = "acquire"
    /\ download_semaphore > 0
    /\ download_semaphore' = download_semaphore - 1
    /\ tasks' = [tasks EXCEPT ![dl.task].status = "downloading"]
    /\ startOrder' = Append(startOrder, dl.task)
    /\ dl' = [dl EXCEPT !.pc = "starting"]
    /\ UNCHANGED auxVars
    /\ UNCHANGED sideVars
    /\ UNCHANGED <<max_concurrent_downloads, msgs, download_queue, active_downloads,
                   tracker, fs, download_stats>>

\* leaving the semaphore block, then asyncio.sleep(0.5)
ReleaseSlot ==
    /\ dl.pc = "release"
    /\ download_semaphore' = download_semaphore + 1
    /\ dl' = IdleDl
    /\ tracker' = NewTracker(0)
    /\ tasks' = [tasks EXCEPT ![dl.task] = Released(@)]
    /\ UNCHANGED auxVars
    /\ UNCHANGED sideVars
    /\ UNCHANGED <<max_concurrent_downloads, msgs, download_queue,
                   active_downloads, fs, download_stats, startOrder>>

----
(* DownloadManager._download_file, snapshot 20250407 *)

CurTask == tasks[dl.task]

\* what the remote source can deliver for a file announced with file_size bytes:
\* all of it, or one unit less; an unannounced size is learnt from the source
RemoteLens(file_size) ==
    IF file_size = 0 THEN Sizes \ {0} ELSE {file_size, file_size - 1}

\* the threshold itself already selects Telethon
UseTelethonFrom(telethon_available, file_size) ==
    telethon_available /\ file_size >= TelethonThreshold

\* use_telethon = (telethon_available and task.file_size > 20 * 1024 * 1024 and
\* task.original_message); every task is created with its message
UseTelethon(telethon_available, file_size) ==
    telethon_available /\ file_size > TelethonThreshold

\* tracker, active_downloads entry, check_connection, transport selection
StartDownload(telethon_available) ==
    /\ dl.pc = "starting"
    /\ tracker' = NewTracker(CurTask.file_size)
    /\ active_downloads' = ActivePut(active_downloads, DownloadKey(dl.task), dl.task)
    /\ LET use_telethon == UseTelethon(telethon_available, CurTask.file_size)
       IN dl' = [dl EXCEPT !.pc = IF use_telethon THEN "tele_try" ELSE "bot_try",
                           !.transport = IF use_telethon THEN "telethon" ELSE "botapi",
                           !.attempt = 0]
    /\ UNCHANGED auxVars
    /\ UNCHANGED sideVars
    /\ UNCHANGED <<max_concurrent_downloads, msgs, tasks, download_queue,
                   download_semaphore, fs, download_stats, startOrder>>

\* the transport returned: success is its return value
Returned(d, ok) == [d EXCEPT !.pc = "transferred", !.success = ok, !.returned = ok]

----
(* DownloadManager._download_with_botapi *)

\* history: one more attempt begun, one more attempt failed
Began(d) == [d EXCEPT !.attempts = @ + 1, !.began_at = now]
Failed(d) == [d EXCEPT !.failures = @ + 1, !.lost = @ + d.current, !.current = 0]

\* the retry logic under the try block: backoff sleep, or return False
BotFailed(d) ==
    IF RetryAllowed(d.attempt) THEN [d EXCEPT !.pc = "bot_backoff"] ELSE Returned(d, FALSE)

\* get_file, session.get, content-length, open(task.file_path, 'wb')
BotApiRequest(ok, remote, has_length) ==
    /\ dl.pc = "bot_try"
    /\ remote \in RemoteLens(CurTask.file_size)
    /\ IF ok
       THEN /\ tasks' = [tasks EXCEPT ![dl.task].file_size =
                                          IF @ = 0 /\ has_length THEN remote ELSE @]
            /\ tracker' = IF CurTask.file_size = 0 /\ has_length
                          THEN [tracker EXCEPT !.total_size = remote] ELSE tracker
            /\ fs' = [fs EXCEPT ![CurTask.path] = 0]
            /\ dl' = [Began(dl) EXCEPT !.pc = "bot_stream", !.remote = remote,
                                       !.current = 0]
       ELSE /\ ~has_length
            /\ tasks' = [tasks EXCEPT ![dl.task].retries = @ + 1]
            /\ dl' = BotFailed(Failed(Began(dl)))
            /\ UNCHANGED <<tracker, fs>>
    /\ UNCHANGED auxVars
    /\ UNCHANGED sideVars
    /\ UNCHANGED <<max_concurrent_downloads, msgs, download_queue, download_semaphore,
                   active_downloads, download_stats, startOrder>>

\* bot.get_file is refused for good (401 Unauthorized): except Exception
BotApiAuthError ==
    /\ dl.pc = "bot_try"
    /\ tasks' = [tasks EXCEPT ![dl.task].retries = @ + 1]
    /\ dl' = LET d == Failed(Began(dl)) IN BotFailed([d EXCEPT !.fatal_at = d.attempts])
    /\ UNCHANGED auxVars
    /\ UNCHANGED sideVars
    /\ UNCHANGED <<max_concurrent_downloads, msgs, download_queue, download_semaphore,
                   active_downloads, tracker, fs, download_stats, startOrder>>

\* one chunk: f.write(chunk), tracker.update(len(chunk))
BotApiChunk(editOk) ==
    /\ dl.pc = "bot_stream"
    /\ dl.current < dl.remote
    /\ fs' = [fs EXCEPT ![CurTask.path] = @ + 1]
    /\ tracker' = TrackerUpdate(tracker, 1, editOk)
    /\ dl' = [dl EXCEPT !.current = @ + 1]
    /\ UNCHANGED auxVars
    /\ UNCHANGED sideVars
    /\ UNCHANGED <<max_concurrent_downloads, msgs, tasks, download_queue,
                   download_semaphore, active_downloads, download_stats, startOrder>>

\* a transient error while reading the next chunk: except ...: task.retries += 1
BotApiError ==
    /\ dl.pc = "bot_stream"
    /\ dl.current < dl.remote
    /\ tasks' = [tasks EXCEPT ![dl.task].retries = @ + 1]
    /\ dl' = BotFailed(Failed(dl))
    /\ UNCHANGED auxVars
    /\ UNCHANGED sideVars
    /\ UNCHANGED <<max_concurrent_downloads, msgs, download_queue, download_semaphore,
                   active_downloads, tracker, fs, download_stats, startOrder>>

\* end of stream: the file must exist and have content
BotApiEnd ==
    /\ dl.pc = "bot_stream"
    /\ dl.current = dl.remote
    /\ IF Exists(CurTask.path) /\ fs[CurTask.path] > 0
       THEN /\ dl' = Returned(dl, TRUE)
            /\ UNCHANGED tasks
       ELSE /\ tasks' = [tasks EXCEPT ![dl.task].retries = @ + 1]
            /\ dl' = BotFailed(Failed(dl))
    /\ UNCHANGED auxVars
    /\ UNCHANGED sideVars
    /\ UNCHANGED <<max_concurrent_downloads, msgs, download_queue, download_semaphore,
                   active_downloads, tracker, fs, download_stats, startOrder>>

\* the backoff sleep is over: next round of the for loop
BotApiRetry ==
    /\ dl.pc = "bot_backoff"
    /\ dl' = IF LoopContinues(dl.attempt)
             THEN [dl EXCEPT !.pc = "bot_try", !.attempt = @ + 1]
             ELSE Returned(dl, FALSE)
    /\ UNCHANGED auxVars
    /\ UNCHANGED sideVars
    /\ UNCHANGED <<max_concurrent_downloads, msgs, tasks, download_queue,
                   download_semaphore, active_downloads, tracker, fs, download_stats,
                   startOrder>>

----
(* DownloadManager._download_with_telethon, TelegramClientManager.download_media *)

\* progress_callback(current, total)
ProgressCallback(tr, current, total, editOk) ==
    IF tr.downloaded # current
    THEN IF current - tr.downloaded > 0
         THEN TrackerUpdate(tr, current - tr.downloaded, editOk)
         ELSE SendProgress([tr EXCEPT !.downloaded = current, !.total_size = total],
                           editOk)
    ELSE tr

\* download_media returned None: the for loop goes on without a wait
TeleNone(d) ==
    IF LoopContinues(d.attempt)
    THEN [d EXCEPT !.pc = "tele_try", !.attempt = @ + 1]
    ELSE Returned(d, FALSE)

\* except Exception: task.retries += 1, backoff or return False
TeleRaised(d) ==
    IF RetryAllowed(d.attempt) THEN [d EXCEPT !.pc = "tele_backoff"] ELSE Returned(d, FALSE)

\* get_messages, then download_media up to the start of the transfer
TelethonRequest(outcome, remote) ==
    /\ dl.pc = "tele_try"
    /\ remote \in RemoteLens(CurTask.file_size)
    /\ CASE outcome = "raise" ->
              /\ remote = CurTask.file_size
              /\ tasks' = [tasks EXCEPT ![dl.task].retries = @ + 1]
              /\ dl' = TeleRaised(Failed(Began(dl)))
              /\ UNCHANGED fs
         [] outcome = "not_connected" ->
              /\ remote = CurTask.file_size
              /\ dl' = TeleNone(Failed(Began(dl)))
              /\ UNCHANGED <<tasks, fs>>
         [] outcome = "start" ->
              /\ dl' = [Began(dl) EXCEPT !.pc = "tele_stream", !.remote = remote,
                                         !.current = 0]
              /\ fs' = [fs EXCEPT ![CurTask.path] = 0]
              /\ UNCHANGED tasks
    /\ UNCHANGED auxVars
    /\ UNCHANGED sideVars
    /\ UNCHANGED <<max_concurrent_downloads, msgs, download_queue, download_semaphore,
                   active_downloads, tracker, download_stats, startOrder>>

\* get_messages raises AuthKeyError: except Exception
TelethonAuthError ==
    /\ dl.pc = "tele_try"
    /\ tasks' = [tasks EXCEPT ![dl.task].retries = @ + 1]
    /\ dl' = LET d == Failed(Began(dl)) IN TeleRaised([d EXCEPT !.fatal_at = d.attempts])
    /\ UNCHANGED auxVars
    /\ UNCHANGED sideVars
    /\ UNCHANGED <<max_concurrent_downloads, msgs, download_queue, download_semaphore,
                   active_downloads, tracker, fs, download_stats, startOrder>>

\* the client wrote one more unit and reports the running total
TelethonProgress(editOk) ==
    /\ dl.pc = "tele_stream"
    /\ dl.current < dl.remote
    /\ fs' = [fs EXCEPT ![CurTask.path] = dl.current + 1]
    /\ tracker' = ProgressCallback(tracker, dl.current + 1, dl.remote, editOk)
    /\ dl' = [dl EXCEPT !.current = @ + 1]
    /\ UNCHANGED auxVars
    /\ UNCHANGED sideVars
    /\ UNCHANGED <<max_concurrent_downloads, msgs, tasks, download_queue,
                   download_semaphore, active_downloads, download_stats, startOrder>>

\* FloodWaitError or another error inside client.download_media: caught, None
TelethonError ==
    /\ dl.pc = "tele_stream"
    /\ dl.current < dl.remote
    /\ dl' = TeleNone(Failed(dl))
    /\ UNCHANGED auxVars
    /\ UNCHANGED sideVars
    /\ UNCHANGED <<max_concurrent_downloads, msgs, tasks, download_queue,
                   download_semaphore, active_downloads, tracker, fs, download_stats,
                   startOrder>>

\* client.download_media returned the path
TelethonDone ==
    /\ dl.pc = "tele_stream"
    /\ dl.current = dl.remote
    /\ dl' = IF Exists(CurTask.path) THEN Returned(dl, TRUE) ELSE TeleNone(Failed(dl))
    /\ UNCHANGED auxVars
    /\ UNCHANGED sideVars
    /\ UNCHANGED <<max_concurrent_downloads, msgs, tasks, download_queue,
                   download_semaphore, active_downloads, tracker, fs, download_stats,
                   startOrder>>

\* the backoff sleep and check_connection are over: next round of the for loop
TelethonRetry ==
    /\ dl.pc = "tele_backoff"
    /\ dl' = TeleNone(dl)
    /\ UNCHANGED auxVars
    /\ UNCHANGED sideVars
    /\ UNCHANGED <<max_concurrent_downloads, msgs, tasks, download_queue,
                   download_semaphore, active_downloads, tracker, fs, download_stats,
                   startOrder>>

----
(* Either transport as one step *)

\* what a transport call can leave behind for a file announced with file_size
\* units: its return value, the size of the file at the path, and the size the
\* task knows afterwards (an unannounced size may be learnt from content-length)
TransferOutcomes(file_size) ==
    IF file_size > 0
    THEN {<<TRUE, file_size, file_size>>, <<TRUE, file_size - 1, file_size>>,
          <<FALSE, Absent, file_size>>, <<FALSE, file_size - 1, file_size>>}
    ELSE {<<FALSE, Absent, 0>>}
         \cup UNION {{<<TRUE, r, known>>, <<FALSE, r - 1, known>>} :
                        <<r, known>> \in {<<r, known>> \in (Sizes \ {0}) \X Sizes :
                                              known \in {0, r}}}

\* _download_with_telethon or _download_with_botapi, from call to return
Transfer(ok, left, known) ==
    /\ dl.pc \in {"tele_try", "bot_try"}
    /\ <<ok, left, known>> \in TransferOutcomes(CurTask.file_size)
    /\ fs' = [fs EXCEPT ![CurTask.path] = left]
    /\ tasks' = [tasks EXCEPT ![dl.task].file_size = known]
    /\ tracker' = [tracker EXCEPT !.total_size = known]
    /\ dl' = Returned(dl, ok)
    /\ UNCHANGED auxVars
    /\ UNCHANGED sideVars
    /\ UNCHANGED <<max_concurrent_downloads, msgs, download_queue,
                   download_semaphore, active_downloads, download_stats, startOrder>>

----
(* DownloadManager._download_file, after the transport returned *)

\* StatsManager.update(total_downloads=..., ...): the values are computed by the caller
StatsUpdate(st, success, file_size) ==
    [st EXCEPT !.total_downloads = @ + 1,
               !.successful_downloads = @ + (IF success THEN 1 ELSE 0),
               !.failed_downloads = @ + (IF success THEN 0 ELSE 1),
               !.total_bytes = @ + (IF success THEN file_size ELSE 0),
               !.peak_concurrent =
                   Max(@, max_concurrent_downloads - download_semaphore)]

\* if success: self.download_stats.successful_downloads += 1, total_bytes += size
StatsOnSuccess(st, downloaded_size) ==
    [st EXCEPT !.successful_downloads = @ + 1, !.total_bytes = @ + downloaded_size]

\* the except Exception branch of _download_file
StatsOnException(st) ==
    [st EXCEPT !.total_downloads = @ + 1, !.failed_downloads = @ + 1]

\* the tracker keeps the sum of its updates
FinalSizeNotSet(tr, downloaded_size) == tr

\* tracker.downloaded = downloaded_size  # Ensure tracker has correct final size
FinalSize(tr, downloaded_size) == [tr EXCEPT !.downloaded = downloaded_size]

\* a rejected file sends the task back to its transport
AfterVerifyAgain(d, success) ==
    IF d.success /\ ~success
    THEN [d EXCEPT !.pc = IF d.transport = "telethon" THEN "tele_try" ELSE "bot_try",
                   !.attempt = 0, !.success = FALSE]
    ELSE [d EXCEPT !.pc = "finish", !.success = success]

\* success = await self._verify_download(...): whatever the result, the
\* statistics and the success or failure branch come next
AfterVerify(d, success) == [d EXCEPT !.pc = "finish", !.success = success]

\* verification, then the statistics update
FinishVerify(padded) ==
    /\ dl.pc = "transferred"
    /\ dl.success \/ ~padded
    /\ LET success == IF dl.success /\ verify_downloads
                      THEN VerifyDownload(CurTask.path, CurTask.file_size, padded)
                      ELSE dl.success
       IN /\ dl' = AfterVerify([dl EXCEPT !.padded = padded,
                                          !.rejected_at = IF dl.success /\ ~success /\ @ = 0
                                                          THEN dl.attempts ELSE @],
                                success)
          /\ download_stats' = StatsUpdate(download_stats, success, CurTask.file_size)
    /\ UNCHANGED auxVars
    /\ UNCHANGED sideVars
    /\ UNCHANGED <<max_concurrent_downloads, msgs, tasks, download_queue,
                   download_semaphore, active_downloads, tracker, fs, startOrder>>

\* the exception leaves _download_file and ends the dispatch loop
Escaped(d) == [d EXCEPT !.pc = "crashed", !.errored = TRUE]

\* except Exception as e: ... the branch ends normally and _download_file returns
Caught(d) == [d EXCEPT !.pc = "release", !.errored = TRUE]

\* if success: ... tracker.complete(success=True), the completion notice; a
\* failing send_message raises into the except branch
FinishSuccess(finalOk, noticeOk) ==
    /\ dl.pc = "finish"
    /\ dl.success
    /\ tracker' = TrackerComplete(FinalSize(tracker, fs[CurTask.path]), finalOk)
    /\ WaitIfNeeded("notify")
    /\ download_stats' =
          LET st == StatsOnSuccess(download_stats, fs[CurTask.path])
          IN IF noticeOk THEN st ELSE StatsOnException(st)
    /\ active_downloads' = ActiveDel(active_downloads, DownloadKey(dl.task))
    /\ dl' = IF noticeOk THEN [dl EXCEPT !.pc = "release"] ELSE Caught(dl)
    /\ UNCHANGED batchVars
    /\ UNCHANGED sideVars
    /\ UNCHANGED <<max_concurrent_downloads, msgs, tasks, download_queue,
                   download_semaphore, fs, startOrder>>

\* else: self.download_stats["failed_downloads"] += 1 raises TypeError (the
\* statistics are a dataclass), so the except branch runs instead of the rest
FinishFailure ==
    /\ dl.pc = "finish"
    /\ ~dl.success
    /\ download_stats' = StatsOnException(download_stats)
    /\ active_downloads' = ActiveDel(active_downloads, DownloadKey(dl.task))
    /\ dl' = Caught(dl)
    /\ UNCHANGED auxVars
    /\ UNCHANGED sideVars
    /\ UNCHANGED <<max_concurrent_downloads, msgs, tasks, download_queue,
                   download_semaphore, tracker, fs, startOrder>>

----
Next ==
    \/ \E m \in Msgs, fid \in FileIds : HandleMedia(m, fid)
    \/ \E m \in Msgs : AddTask(m)
    \/ PopTask
    \/ AcquireSlot
    \/ \E avail \in BOOLEAN : StartDownload(avail)
    \/ \E ok \in BOOLEAN, remote \in Sizes \cup {s - 1 : s \in Sizes \ {0}},
          has_length \in BOOLEAN : BotApiRequest(ok, remote, has_length)
    \/ \E editOk \in BOOLEAN : BotApiChunk(editOk)
    \/ BotApiAuthError
    \/ BotApiError
    \/ BotApiEnd
    \/ BotApiRetry
    \/ \E outcome \in {"raise", "not_connected", "start"},
          remote \in Sizes \cup {s - 1 : s \in Sizes \ {0}} :
          TelethonRequest(outcome, remote)
    \/ \E editOk \in BOOLEAN : TelethonProgress(editOk)
    \/ TelethonAuthError
    \/ TelethonError
    \/ TelethonDone
    \/ TelethonRetry
    \/ \E padded \in BOOLEAN : FinishVerify(padded)
    \/ \E finalOk, noticeOk \in BOOLEAN : FinishSuccess(finalOk, noticeOk)
    \/ FinishFailure
    \/ ReleaseSlot

Spec == Init /\ [][Next]_vars

\* one task at a time through _download_file: at most MaxRunMsgs messages arrive
InitRun ==
    /\ InitSide
    /\ max_concurrent_downloads = MaxConcurrent
    /\ msgs = [m \in Msgs |-> IF m <= MaxRunMsgs THEN NewMsg
                                ELSE [NewMsg EXCEPT !.st = "none"]]
    /\ tasks = <<>>
    /\ download_queue = <<>>
    /\ download_semaphore = max_concurrent_downloads
    /\ active_downloads = {}
    /\ dl = IdleDl
    /\ tracker = NewTracker(0)
    /\ fs = [p \in Paths |-> Absent]
    /\ download_stats = NewStats
    /\ startOrder = <<>>
    /\ now = StartTime
    /\ rate_limiter = [k \in Keys |-> Never]
    /\ batch_trackers = [g \in Groups |-> 0]
    /\ pending_media_groups = {}
    /\ bts = <<>>
    /\ timers = [g \in Groups |-> 0]
    /\ procs = <<>>
    /\ created = <<>>

SpecRun == InitRun /\ [][Next]_vars

\* the same program with each transport call taken as one step
NextQueue ==
    \/ \E m \in Msgs, fid \in FileIds : HandleMedia(m, fid)
    \/ \E m \in Msgs : AddTask(m)
    \/ PopTask
    \/ AcquireSlot
    \/ \E avail \in BOOLEAN : StartDownload(avail)
    \/ \E ok \in BOOLEAN, left \in {Absent} \cup 0..MaxBytes, known \in Sizes :
          Transfer(ok, left, known)
    \/ \E padded \in BOOLEAN : FinishVerify(padded)
    \/ \E finalOk, noticeOk \in BOOLEAN : FinishSuccess(finalOk, noticeOk)
    \/ FinishFailure
    \/ ReleaseSlot

SpecQueue == Init /\ [][NextQueue]_vars

\* the steps of the dispatch loop's own coroutine
LoopStep ==
    \/ PopTask
    \/ AcquireSlot
    \/ \E avail \in BOOLEAN : StartDownload(avail)
    \/ \E ok \in BOOLEAN, left \in {Absent} \cup 0..MaxBytes, known \in Sizes :
          Transfer(ok, left, known)
    \/ \E padded \in BOOLEAN : FinishVerify(padded)
    \/ \E finalOk, noticeOk \in BOOLEAN : FinishSuccess(finalOk, noticeOk)
    \/ FinishFailure
    \/ ReleaseSlot

\* the event loop resumes the dispatch loop whenever it can go on; every
\* transport call returns
\* any configured number of permits, at most MaxRunMsgs messages arriving
InitLive ==
    /\ InitSide
    /\ max_concurrent_downloads \in 1..MaxConcurrent
    /\ msgs = [m \in Msgs |-> IF m <= MaxRunMsgs THEN NewMsg
                                ELSE [NewMsg EXCEPT !.st = "none"]]
    /\ tasks = <<>>
    /\ download_queue = <<>>
    /\ download_semaphore = max_concurrent_downloads
    /\ active_downloads = {}
    /\ dl = IdleDl
    /\ tracker = NewTracker(0)
    /\ fs = [p \in Paths |-> Absent]
    /\ download_stats = NewStats
    /\ startOrder = <<>>
    /\ now = StartTime
    /\ rate_limiter = [k \in Keys |-> Never]
    /\ batch_trackers = [g \in Groups |-> 0]
    /\ pending_media_groups = {}
    /\ bts = <<>>
    /\ timers = [g \in Groups |-> 0]
    /\ procs = <<>>
    /\ created = <<>>

SpecLive == InitLive /\ [][NextQueue]_vars /\ WF_vars(LoopStep)

----
(* The waits between attempts, with the clock followed through the sleeps *)

\* await asyncio.sleep(wait_time) of _download_with_botapi, then the next round
BotApiBackoff(jitter) ==
    /\ dl.pc = "bot_backoff"
    /\ now' = now + Backoff(dl.attempt, jitter)
    /\ dl' = IF LoopContinues(dl.attempt)
             THEN [dl EXCEPT !.pc = "bot_try", !.attempt = @ + 1]
             ELSE Returned(dl, FALSE)
    /\ UNCHANGED <<rate_limiter, batchVars>>
    /\ UNCHANGED sideVars
    /\ UNCHANGED <<max_concurrent_downloads, msgs, tasks, download_queue,
                   download_semaphore, active_downloads, tracker, fs, download_stats,
                   startOrder>>

\* await asyncio.sleep(wait_time) of _download_with_telethon and
\* check_connection, then the next round
TelethonBackoff(jitter) ==
    /\ dl.pc = "tele_backoff"
    /\ now' = now + Backoff(dl.attempt, jitter)
    /\ dl' = TeleNone(dl)
    /\ UNCHANGED <<rate_limiter, batchVars>>
    /\ UNCHANGED sideVars
    /\ UNCHANGED <<max_concurrent_downloads, msgs, tasks, download_queue,
                   download_semaphore, active_downloads, tracker, fs, download_stats,
                   startOrder>>

\* get_messages raises FloodWaitError(seconds): except Exception of
\* _download_with_telethon
TelethonFlood(seconds) ==
    /\ dl.pc = "tele_try"
    /\ tasks' = [tasks EXCEPT ![dl.task].retries = @ + 1]
    /\ dl' = LET d == Failed(Began(dl))
             IN TeleRaised([d EXCEPT !.flooded = d.attempts,
                                     !.flood_until = now + seconds])
    /\ UNCHANGED auxVars
    /\ UNCHANGED sideVars
    /\ UNCHANGED <<max_concurrent_downloads, msgs, download_queue, download_semaphore,
                   active_downloads, tracker, fs, download_stats, startOrder>>

\* client.download_media raises FloodWaitError(seconds): caught by
\* TelegramClientManager.download_media, whose sleep begins
TelethonStreamFlood(seconds) ==
    /\ dl.pc = "tele_stream"
    /\ dl.current < dl.remote
    /\ dl' = [Failed(dl) EXCEPT !.pc = "tele_flood", !.flooded = dl.attempts,
                                !.flood_until = now + seconds]
    /\ UNCHANGED auxVars
    /\ UNCHANGED sideVars
    /\ UNCHANGED <<max_concurrent_downloads, msgs, tasks, download_queue,
                   download_semaphore, active_downloads, tracker, fs, download_stats,
                   startOrder>>

\* await asyncio.sleep(e.seconds) is over: download_media returns None
TelethonFloodWake ==
    /\ dl.pc = "tele_flood"
    /\ now' = Max(now, dl.flood_until)
    /\ dl' = TeleNone(dl)
    /\ UNCHANGED <<rate_limiter, batchVars>>
    /\ UNCHANGED sideVars
    /\ UNCHANGED <<max_concurrent_downloads, msgs, tasks, download_queue,
                   download_semaphore, active_downloads, tracker, fs, download_stats,
                   startOrder>>

NextWait ==
    \/ \E m \in Msgs, fid \in FileIds : HandleMedia(m, fid)
    \/ \E m \in Msgs : AddTask(m)
    \/ PopTask
    \/ AcquireSlot
    \/ \E avail \in BOOLEAN : StartDownload(avail)
    \/ \E ok \in BOOLEAN, remote \in Sizes \cup {s - 1 : s \in Sizes \ {0}},
          has_length \in BOOLEAN : BotApiRequest(ok, remote, has_length)
    \/ \E editOk \in BOOLEAN : BotApiChunk(editOk)
    \/ BotApiAuthError
    \/ BotApiError
    \/ BotApiEnd
    \/ \E jitter \in Jitters : BotApiBackoff(jitter)
    \/ \E outcome \in {"raise", "not_connected", "start"},
          remote \in Sizes \cup {s - 1 : s \in Sizes \ {0}} :
          TelethonRequest(outcome, remote)
    \/ \E editOk \in BOOLEAN : TelethonProgress(editOk)
    \/ TelethonAuthError
    \/ \E seconds \in FloodWaits : TelethonFlood(seconds)
    \/ \E seconds \in FloodWaits : TelethonStreamFlood(seconds)
    \/ TelethonFloodWake
    \/ TelethonError
    \/ TelethonDone
    \/ \E jitter \in Jitters : TelethonBackoff(jitter)
    \/ \E padded \in BOOLEAN : FinishVerify(padded)
    \/ \E finalOk, noticeOk \in BOOLEAN : FinishSuccess(finalOk, noticeOk)
    \/ FinishFailure
    \/ ReleaseSlot

\* one task at a time through _download_file, the clock followed
SpecWait == InitRun /\ [][NextWait]_vars

----
(* A ProgressTracker on its own: update and complete called in any order while
   time passes *)

InitTracker ==
    /\ InitSide
    /\ max_concurrent_downloads = MaxConcurrent
    /\ msgs = [m \in Msgs |-> [NewMsg EXCEPT !.st = "none"]]
    /\ tasks = <<>>
    /\ download_queue = <<>>
    /\ download_semaphore = max_concurrent_downloads
    /\ active_downloads = {}
    /\ dl = IdleDl
    /\ tracker \in {NewTracker(total) : total \in Sizes}
    /\ fs = [p \in Paths |-> Absent]
    /\ download_stats = NewStats
    /\ startOrder = <<>>
    /\ now = StartTime
    /\ rate_limiter = [k \in Keys |-> Never]
    /\ batch_trackers = [g \in Groups |-> 0]
    /\ pending_media_groups = {}
    /\ bts = <<>>
    /\ timers = [g \in Groups |-> 0]
    /\ procs = <<>>
    /\ created = <<>>

\* a second of time.time()
Tick ==
    /\ now < StartTime + MaxElapsed
    /\ now' = now + 1
    /\ UNCHANGED <<managerVars, tracker, rate_limiter, batchVars>>

\* await tracker.update(chunk_size)
Update(chunk_size, editOk) ==
    /\ tracker.downloaded + chunk_size <= MaxBytes
    /\ tracker' = TrackerUpdate(tracker, chunk_size, editOk)
    /\ UNCHANGED <<managerVars, now, rate_limiter, batchVars>>

\* await tracker.complete(success)
Complete(success, sinkOk) ==
    /\ tracker.completions < MaxCompletes
    /\ WaitedUntil("notify") <= StartTime + MaxElapsed
    /\ tracker' = TrackerComplete(tracker, sinkOk)
    /\ WaitIfNeeded("notify")
    /\ UNCHANGED <<managerVars, batchVars>>

NextTracker ==
    \/ Tick
    \/ \E chunk_size \in 1..2, editOk \in BOOLEAN : Update(chunk_size, editOk)
    \/ \E success, sinkOk \in BOOLEAN : Complete(success, sinkOk)

SpecTracker == InitTracker /\ [][NextTracker]_vars

----
(* Media groups, snapshot 20250402: handle_media's group branch,
   process_media_group, and _download_file with its batch tracker.  The
   messages of this part all belong to a media group; each transport call is
   taken as one step, and progress texts are not followed. *)

\* BatchProgressTracker.__init__ and handle_media's files = []; completes counts
\* the calls of complete, closed is <<completed, failed, total>> at the last one
NewBatch == [files |-> <<>>, total_files |-> 0, total_size |-> 0, completed_files |-> 0,
             failed_files |-> 0, downloaded_bytes |-> 0, active |-> TRUE,
             completes |-> 0, closed |-> <<>>]

FileIdsOf(files) == {files[i].file_id : i \in 1..Len(files)}

\* process_media_group's filter: the first file of each file_id, in order
RECURSIVE UniqueFiles(_)
UniqueFiles(files) ==
    IF files = <<>> THEN <<>>
    ELSE LET front == SubSeq(files, 1, Len(files) - 1)
             last == files[Len(files)]
         IN IF last.file_id \in FileIdsOf(front) THEN UniqueFiles(front)
            ELSE Append(UniqueFiles(front), last)

\* BatchProgressTracker.update: the counters
BatchUpdate(b, downloaded, completed, failed) ==
    [b EXCEPT !.downloaded_bytes = @ + downloaded, !.completed_files = @ + completed,
              !.failed_files = @ + failed]

\* BatchProgressTracker.complete
BatchComplete(b) ==
    [b EXCEPT !.active = FALSE, !.completes = @ + 1,
              !.closed = <<b.completed_files, b.failed_files, b.total_files>>]

\* if completed_and_failed >= batch_tracker.total_files
IsLastFile(b) == b.completed_files + b.failed_files >= b.total_files

\* a process_media_group coroutine that has returned
ProcDone == [st |-> "done", group |-> 0, bt |-> 0, i |-> 0, processed |-> {},
             frozen |-> FALSE, files |-> <<>>]

\* the list a process_media_group loop walks: the tracker's list, or the list the
\* tracker had before another process_media_group replaced it
ProcFiles(p) == IF procs[p].frozen THEN procs[p].files ELSE bts[procs[p].bt].files

\* handle_media up to its first await: the duplicate check against the group's
\* tracker, or pending_media_groups.add for a group without one
HandleGroupMedia(m, fid, g) ==
    /\ msgs[m].st = "new"
    /\ \A k \in Msgs : k < m => msgs[k].st # "new"
    /\ LET bt == batch_trackers[g]
           msg == [msgs[m] EXCEPT !.file_id = fid, !.group = g,
                                  !.collecting = g \in pending_media_groups]
       IN /\ msgs' = [msgs EXCEPT ![m] =
                IF bt # 0 /\ fid \in FileIdsOf(bts[bt].files)
                THEN [msg EXCEPT !.st = "dup"]
                ELSE [msg EXCEPT !.st = IF bt # 0 THEN "join" ELSE "first",
                                 !.file_size = FileSize(fid), !.path = UniquePath(fid),
                                 !.bt = bt]]
          /\ pending_media_groups' =
                IF bt = 0 THEN pending_media_groups \cup {g} ELSE pending_media_groups
    /\ UNCHANGED sideVars
    /\ UNCHANGED <<max_concurrent_downloads, tasks, download_queue, download_semaphore,
                   active_downloads, dl, tracker, fs, download_stats, startOrder, now,
                   rate_limiter, batch_trackers, bts, timers, procs, created>>

\* handle_media after its await: a first message creates and registers the
\* tracker and schedules process_media_group; the file is appended to the tracker.
\* A first message whose send_message raised ends there
GroupAppend(m, sinkOk) ==
    /\ msgs[m].st \in {"first", "join"}
    /\ LET g == msgs[m].group
           first == msgs[m].st = "first"
           file == [file_id |-> msgs[m].file_id, file_size |-> msgs[m].file_size,
                    path |-> msgs[m].path]
           bt == IF first THEN Len(bts) + 1 ELSE msgs[m].bt
           base == IF first THEN Append(bts, NewBatch) ELSE bts
       IN IF first /\ ~sinkOk
          THEN UNCHANGED <<batch_trackers, bts, timers>>
          ELSE /\ bts' = [base EXCEPT ![bt] =
                            [base[bt] EXCEPT !.files = Append(base[bt].files, file),
                                             !.total_files = Len(base[bt].files) + 1,
                                             !.total_size = @ + file.file_size]]
               /\ batch_trackers' = IF first THEN [batch_trackers EXCEPT ![g] = bt]
                                    ELSE batch_trackers
               /\ timers' = IF first THEN [timers EXCEPT ![g] = @ + 1] ELSE timers
    /\ msgs' = [msgs EXCEPT ![m] = [@ EXCEPT !.st = "done", !.file_size = 0,
                                            !.path = <<0, 0>>, !.bt = 0]]
    /\ UNCHANGED sideVars
    /\ UNCHANGED <<max_concurrent_downloads, tasks, download_queue, download_semaphore,
                   active_downloads, dl, tracker, fs, download_stats, startOrder, now,
                   rate_limiter, pending_media_groups, procs, created>>

\* the timer fires: process_media_group up to its first await
ProcessMediaGroup(g) ==
    /\ timers[g] > 0
    /\ timers' = [timers EXCEPT ![g] = @ - 1]
    /\ IF batch_trackers[g] = 0
       THEN UNCHANGED <<bts, procs>>
       ELSE LET bt == batch_trackers[g]
                old == bts[bt].files
                unique_files == UniqueFiles(old)
            IN /\ bts' = [bts EXCEPT ![bt] = [@ EXCEPT !.files = unique_files,
                                                       !.total_files = Len(unique_files)]]
               /\ procs' = Append(
                      [p \in DOMAIN procs |->
                          IF procs[p].st # "done" /\ procs[p].bt = bt /\ ~procs[p].frozen
                          THEN [procs[p] EXCEPT !.frozen = TRUE, !.files = old]
                          ELSE procs[p]],
                      [ProcDone EXCEPT !.st = "loop", !.group = g, !.bt = bt])
    /\ UNCHANGED sideVars
    /\ UNCHANGED <<max_concurrent_downloads, msgs, tasks, download_queue,
                   download_semaphore, active_downloads, dl, tracker, fs, download_stats,
                   startOrder, now, rate_limiter, batch_trackers, pending_media_groups,
                   created>>

\* the for loop up to send_message: the next file, skipped if its file_id was
\* processed; after the last file, pending_media_groups.remove.  A send_message
\* that raises ends the coroutine in its except branch
ProcessNextFile(p, sinkOk) ==
    /\ procs[p].st = "loop"
    /\ LET files == ProcFiles(p)
           i == procs[p].i
           leave == /\ procs' = [procs EXCEPT ![p] = ProcDone]
                    /\ pending_media_groups' = pending_media_groups \ {procs[p].group}
       IN IF i >= Len(files) THEN leave
          ELSE IF files[i + 1].file_id \in procs[p].processed
          THEN /\ procs' = [procs EXCEPT ![p].i = i + 1]
               /\ UNCHANGED pending_media_groups
          ELSE IF sinkOk
          THEN /\ procs' = [procs EXCEPT ![p].st = "send",
                                         ![p].processed = @ \cup {files[i + 1].file_id}]
               /\ UNCHANGED pending_media_groups
          ELSE leave
    /\ UNCHANGED sideVars
    /\ UNCHANGED <<max_concurrent_downloads, msgs, tasks, download_queue,
                   download_semaphore, active_downloads, dl, tracker, fs, download_stats,
                   startOrder, now, rate_limiter, batch_trackers, bts, timers, created>>

\* DownloadTask(...), add_task(task)
ProcessAddTask(p) ==
    /\ procs[p].st = "send"
    /\ LET file == ProcFiles(p)[procs[p].i + 1]
       IN /\ tasks' = Append(tasks, [file_id |-> file.file_id, file_size |-> file.file_size,
                                     path |-> file.path, status |-> "queued",
                                     retries |-> 0, batch_id |-> procs[p].group])
          /\ created' = Append(created, <<procs[p].group, file.file_id>>)
    /\ download_queue' = Append(download_queue, Len(tasks) + 1)
    /\ procs' = [procs EXCEPT ![p].st = "loop", ![p].i = @ + 1]
    /\ UNCHANGED sideVars
    /\ UNCHANGED <<max_concurrent_downloads, msgs, download_semaphore, active_downloads,
                   dl, tracker, fs, download_stats, startOrder, now, rate_limiter,
                   batch_trackers, pending_media_groups, bts, timers>>

\* self.download_stats[...] += 1 of snapshot 20250402
StatsCount(st, success, downloaded_size) ==
    [st EXCEPT !.total_downloads = @ + 1,
               !.successful_downloads = @ + (IF success THEN 1 ELSE 0),
               !.failed_downloads = @ + (IF success THEN 0 ELSE 1),
               !.total_bytes = @ + (IF success THEN downloaded_size ELSE 0)]

\* verification, statistics, tracker.complete; a failed file is removed
FinishFile(padded, finalOk) ==
    /\ dl.pc = "transferred"
    /\ dl.success \/ ~padded
    /\ LET success == IF dl.success /\ verify_downloads
                      THEN VerifyDownload(CurTask.path, CurTask.file_size, padded)
                      ELSE dl.success
       IN /\ dl' = [dl EXCEPT !.pc = "batch", !.success = success, !.padded = padded]
          /\ download_stats' = StatsCount(download_stats, success, fs[CurTask.path])
          /\ tracker' = TrackerComplete(IF success
                                        THEN FinalSize(tracker, fs[CurTask.path])
                                        ELSE tracker, finalOk)
          /\ fs' = IF success THEN fs ELSE [fs EXCEPT ![CurTask.path] = Absent]
    /\ WaitIfNeeded("notify")
    /\ UNCHANGED batchVars
    /\ UNCHANGED sideVars
    /\ UNCHANGED <<max_concurrent_downloads, msgs, tasks, download_queue,
                   download_semaphore, active_downloads, startOrder>>

\* if task.batch_id in self.batch_trackers: batch_tracker.update(...)
FinishBatchUpdate ==
    /\ dl.pc = "batch"
    /\ LET bt == batch_trackers[CurTask.batch_id]
       IN IF bt = 0
          THEN /\ active_downloads' = ActiveDel(active_downloads, DownloadKey(dl.task))
               /\ dl' = [dl EXCEPT !.pc = "release"]
               /\ UNCHANGED bts
          ELSE /\ bts' = [bts EXCEPT ![bt] =
                            IF dl.success
                            THEN BatchUpdate(@, IF Exists(CurTask.path)
                                                THEN fs[CurTask.path] ELSE 0, 1, 0)
                            ELSE BatchUpdate(@, 0, 0, 1)]
               /\ dl' = [dl EXCEPT !.pc = "check", !.bt = bt]
               /\ UNCHANGED active_downloads
    /\ UNCHANGED sideVars
    /\ UNCHANGED <<max_concurrent_downloads, msgs, tasks, download_queue,
                   download_semaphore, tracker, fs, download_stats, startOrder, now,
                   rate_limiter, batch_trackers, pending_media_groups, timers, procs,
                   created>>

\* the last-file check and batch_tracker.complete()
FinishBatchCheck ==
    /\ dl.pc = "check"
    /\ IF IsLastFile(bts[dl.bt])
       THEN /\ bts' = [bts EXCEPT ![dl.bt] = BatchComplete(@)]
            /\ dl' = [dl EXCEPT !.pc = "notify"]
            /\ UNCHANGED active_downloads
       ELSE /\ active_downloads' = ActiveDel(active_downloads, DownloadKey(dl.task))
            /\ dl' = [dl EXCEPT !.pc = "release", !.bt = 0]
            /\ UNCHANGED bts
    /\ UNCHANGED sideVars
    /\ UNCHANGED <<max_concurrent_downloads, msgs, tasks, download_queue,
                   download_semaphore, tracker, fs, download_stats, startOrder, now,
                   rate_limiter, batch_trackers, pending_media_groups, timers, procs,
                   created>>

\* the batch notice and del self.batch_trackers[task.batch_id]; a send_message
\* that raises leads to the except branch: statistics, update(failed=1)
FinishBatchNotify(noticeOk) ==
    /\ dl.pc = "notify"
    /\ LET g == CurTask.batch_id
       IN IF bts[dl.bt].completed_files > 0 /\ ~noticeOk
          THEN /\ download_stats' = StatsOnException(download_stats)
               /\ bts' = IF batch_trackers[g] # 0
                         THEN [bts EXCEPT ![batch_trackers[g]] = BatchUpdate(@, 0, 0, 1)]
                         ELSE bts
               /\ dl' = [dl EXCEPT !.pc = "release", !.bt = 0, !.errored = TRUE]
               /\ UNCHANGED batch_trackers
          ELSE /\ batch_trackers' = [batch_trackers EXCEPT ![g] = 0]
               /\ dl' = [dl EXCEPT !.pc = "release", !.bt = 0]
               /\ UNCHANGED <<download_stats, bts>>
    /\ active_downloads' = ActiveDel(active_downloads, DownloadKey(dl.task))
    /\ UNCHANGED sideVars
    /\ UNCHANGED <<max_concurrent_downloads, msgs, tasks, download_queue,
                   download_semaphore, tracker, fs, startOrder, now, rate_limiter,
                   pending_media_groups, timers, procs, created>>

NextBatch ==
    \/ \E m \in Msgs, fid \in FileIds, g \in Groups : HandleGroupMedia(m, fid, g)
    \/ \E m \in Msgs, sinkOk \in BOOLEAN : GroupAppend(m, sinkOk)
    \/ \E g \in Groups : ProcessMediaGroup(g)
    \/ \E p \in DOMAIN procs, sinkOk \in BOOLEAN : ProcessNextFile(p, sinkOk)
    \/ \E p \in DOMAIN procs : ProcessAddTask(p)
    \/ PopTask
    \/ AcquireSlot
    \/ \E avail \in BOOLEAN : StartDownload(avail)
    \/ \E ok \in BOOLEAN, left \in {Absent} \cup 0..MaxBytes, known \in Sizes :
          Transfer(ok, left, known)
    \/ \E padded, finalOk \in BOOLEAN : FinishFile(padded, finalOk)
    \/ FinishBatchUpdate
    \/ FinishBatchCheck
    \/ \E noticeOk \in BOOLEAN : FinishBatchNotify(noticeOk)
    \/ ReleaseSlot

InitBatch == Init /\ max_concurrent_downloads = MaxConcurrent

SpecBatch == InitBatch /\ [][NextBatch]_vars

----
(* Properties *)

InSection == dl.pc \notin {"idle", "acquire"}
AfterTransport == dl.pc \in {"transferred", "finish", "release"}

\* C1: the tasks in active_downloads are never more than the permits held, and the
\* permits held (tasks inside the semaphore block) never more than
\* max_concurrent_downloads
ConcurrencyBound ==
    /\ Cardinality(active_downloads) <= max_concurrent_downloads - download_semaphore
    /\ max_concurrent_downloads - download_semaphore <= max_concurrent_downloads
    /\ InSection => max_concurrent_downloads - download_semaphore >= 1

\* a task is downloading with every permit taken while another one waits
ConcurrencyBoundWitness ==
    /\ Cardinality(active_downloads) = max_concurrent_downloads
    /\ download_queue # <<>>

\* C2: tasks begin downloading in the order add_task appended them (task ids are
\* given in append order)
FifoStartOrder == \A i \in 1..Len(startOrder) : startOrder[i] = i

\* two tasks waited in the queue together and both have begun
FifoStartOrderWitness ==
    /\ Len(startOrder) = 2
    /\ \E m \in Msgs : msgs[m].pos = 2

\* C3: a task whose every transport attempt failed was attempted exactly
\* max_retries + 1 times and its outcome is failure; no task gets more attempts
\* than that, and none is dispatched again
RetryBound ==
    /\ dl.attempts <= max_retries + 1
    /\ (AfterTransport /\ dl.failures = dl.attempts) =>
           (dl.attempts = max_retries + 1 /\ ~dl.success)
    /\ \A i, j \in 1..Len(startOrder) : startOrder[i] = startOrder[j] => i = j

\* the Telethon transport has exhausted its retries
RetryBoundWitness ==
    /\ dl.pc = "release" /\ dl.transport = "telethon"
    /\ dl.failures = dl.attempts /\ dl.attempts = max_retries + 1

\* C5 as claimed: between tasks, every finished task has added exactly one to
\* total_downloads and to exactly one of successful_downloads, failed_downloads
StatsCountedOnce ==
    dl.pc = "idle" =>
        /\ download_stats.total_downloads = Len(startOrder)
        /\ download_stats.successful_downloads + download_stats.failed_downloads
               = download_stats.total_downloads

\* C6 as claimed: a task that ended failed has left the active set with no file at
\* its destination path
PartialFileRemoved ==
    (dl.pc = "release" /\ ~dl.success) => ~Exists(CurTask.path)

\* C9 as claimed: the tracker's byte count never exceeds a known expected size
DownloadedWithinExpected ==
    tracker.total_size > 0 => tracker.downloaded <= tracker.total_size

\* C10: a task of known size S that failed once and whose next attempt delivered
\* the whole, sound file was attempted exactly twice, ended completed, and its
\* tracker counts S bytes
RetryOnceScenario ==
    (/\ dl.pc = "release"
     /\ CurTask.file_size > 0
     /\ dl.failures = 1 /\ dl.returned
     /\ fs[CurTask.path] = CurTask.file_size /\ ~dl.padded)
    => (/\ dl.attempts = 2
        /\ dl.success
        /\ tracker.downloaded = CurTask.file_size)

\* the failed attempt had received part of the file
RetryOnceScenarioWitness ==
    /\ dl.pc = "release"
    /\ dl.transport = "botapi"
    /\ dl.failures = 1 /\ dl.lost >= 1 /\ dl.returned /\ dl.success
    /\ tracker.downloaded = CurTask.file_size

\* C7 as claimed: however often complete is called, the sink takes one final
\* message at most
CompleteIdempotent == tracker.finals <= 1

Quiescent ==
    /\ \A m \in Msgs : msgs[m].st \in {"done", "dup", "none"}
    /\ \A g \in Groups : timers[g] = 0
    /\ \A p \in DOMAIN procs : procs[p].st = "done"
    /\ download_queue = <<>>
    /\ dl.pc = "idle"

\* C4 as claimed: complete() is invoked on every batch exactly once, in a state
\* where completed_files + failed_files = total_files
BatchClosedOnce ==
    /\ \A b \in DOMAIN bts :
          /\ bts[b].completes <= 1
          /\ bts[b].completes = 1 =>
                 bts[b].closed[1] + bts[b].closed[2] = bts[b].closed[3]
    /\ Quiescent => \A b \in DOMAIN bts : bts[b].completes = 1

TasksFor(g, fid) == Cardinality({i \in DOMAIN created : created[i] = <<g, fid>>})

\* C8 as claimed: a file_id that arrived again for a media group still collecting
\* gets one download task at most, and is one member of the batch once all is done
DuplicateSuppressed ==
    \A m1, m2 \in Msgs :
        (/\ m1 < m2
         /\ msgs[m2].st \in {"done", "dup"} /\ msgs[m1].st \in {"done", "dup"}
         /\ msgs[m1].group = msgs[m2].group /\ msgs[m1].file_id = msgs[m2].file_id
         /\ msgs[m2].collecting)
        => /\ TasksFor(msgs[m1].group, msgs[m1].file_id) <= 1
           /\ Quiescent => \A b \in DOMAIN bts :
                  Cardinality({i \in DOMAIN bts[b].files :
                                 bts[b].files[i].file_id = msgs[m1].file_id}) <= 1

----
(* The dispatch loop and the permits *)

\* permits taken, tasks between acquiring and releasing a permit
PermitsHeld == max_concurrent_downloads - download_semaphore

\* C11: with max_concurrent_downloads >= 2, a task enqueued later can run while
\* an earlier one is still downloading, and so can finish before it: whenever a
\* task is in its transfer, another one waits in the queue and a permit is
\* free, the waiting task can be taken from the queue
OvertakingPossible ==
    (/\ max_concurrent_downloads >= 2
     /\ dl.pc \in {"tele_try", "bot_try"}
     /\ download_queue # <<>>
     /\ download_semaphore > 0)
    => ENABLED PopTask

\* the loop awaits _download_file inside the semaphore block: one permit at most
\* is ever held, whatever max_concurrent_downloads is
OnePermitHeld == PermitsHeld <= 1 /\ Cardinality(active_downloads) <= 1

\* the task of the loop sleeps: retry backoff of either transport, or the wait
\* a FloodWaitError asks for
Suspended == dl.pc \in {"bot_backoff", "tele_backoff", "tele_flood"}

\* C12: while a task is suspended in a retry backoff or a rate-limit wait, the
\* dispatch loop is not blocked: if the queue is non-empty and a permit is free,
\* the next task can be taken and started before the wait ends
WaitDoesNotBlock ==
    (Suspended /\ download_queue # <<>> /\ download_semaphore > 0)
    => ENABLED PopTask

\* the tasks taken from the queue so far, in the order they were taken
Dequeued == startOrder \o (IF dl.pc = "acquire" THEN <<dl.task>> ELSE <<>>)

\* C14: however add_task calls interleave with the pops of the loop, every
\* enqueued task is dequeued exactly once and in append order: the tasks taken
\* so far followed by the tasks still queued are the tasks in the order added
DequeuedOnceInOrder ==
    Dequeued \o download_queue = [i \in 1..Len(tasks) |-> i]

\* two tasks were in the queue together and both have been taken and started
DequeuedOnceInOrderWitness ==
    /\ Len(startOrder) = 2
    /\ \E m \in Msgs : msgs[m].pos = 2

----
(* The status of a task *)

\* the value the status field should hold for the outcome of _download_file
OutcomeStatus == IF dl.success /\ ~dl.errored THEN "completed" ELSE "failed"

\* C20: the status of a task moves queued -> downloading -> completed or failed
\* only, and when the task has been removed from the active set its status is
\* the terminal value matching its outcome
StatusTerminalAtRemoval ==
    /\ \A t \in 1..Len(tasks) :
          tasks[t].status \in {"queued", "downloading", "completed", "failed"}
    /\ \A i \in 1..Len(download_queue) : tasks[download_queue[i]].status = "queued"
    /\ dl.pc = "release" => CurTask.status = OutcomeStatus

----
(* Notification failures *)

\* C19: a failure of the notification sink is never propagated into the result
\* of a task: a task whose transfer and verification succeeded is recorded as
\* successful, not as failed, even if notification calls raise
SinkFailureNotPropagated ==
    (dl.pc = "release" /\ dl.returned /\ dl.success)
    => /\ ~dl.errored
       /\ download_stats.failed_downloads = 0
       /\ download_stats.successful_downloads >= 1

----
(* Waits between attempts *)

\* C15: when an attempt was answered with FloodWaitError carrying a wait of W
\* seconds, the next attempt of the task does not begin before W seconds have
\* passed since the error: the wait is W itself, not a shorter computed backoff
FloodWaitHonoured ==
    (dl.flooded > 0 /\ dl.attempts > dl.flooded) => dl.began_at >= dl.flood_until

\* the same for a FloodWaitError raised inside client.download_media only
FloodWaitHonouredInStream ==
    [][(dl.pc = "tele_flood" /\ dl'.pc # "tele_flood")
       => now' >= dl.flood_until /\ dl'.attempts = dl.attempts]_vars

----
(* Authorization errors *)

\* C16: an authorization error (AuthKeyError, credentials rejected) is not
\* retried: the task gets no further attempt after it, and the manager accepts
\* no new task from then on
FatalNotRetried ==
    dl.fatal_at > 0
    => /\ dl.attempts = dl.fatal_at
       /\ ~ENABLED (\E m \in Msgs : AddTask(m))

\* the first half alone
FatalNoFurtherAttempt == dl.fatal_at > 0 => dl.attempts = dl.fatal_at

\* the second half alone
FatalStopsAccepting == dl.fatal_at > 0 => ~ENABLED (\E m \in Msgs : AddTask(m))

----
(* The retry counter *)

\* C17: every failed transport attempt, a rate-limited one included, adds
\* exactly one to task.retries: after k failed attempts the counter is k
RetriesCountFailures == dl.task # NoTask => CurTask.retries = dl.failures

\* the attempts that ended in the sleep of a FloodWaitError are counted too
RetriesCountFloodWaits ==
    [][(dl.pc = "tele_stream" /\ dl'.pc = "tele_flood")
       => tasks'[dl.task].retries = tasks[dl.task].retries + 1]_vars

----
(* Verification failures *)

\* C18: a verification failure is retried at most once: after verification
\* rejected the file at most one more transport attempt is made for the task,
\* and the task ends failed, never successful
VerificationRetryBound ==
    /\ [](dl.rejected_at > 0
          => /\ dl.attempts <= dl.rejected_at + 1
             /\ dl.pc \in {"finish", "release"} => ~dl.success)
    /\ [][dl'.rejected_at > 0
          => /\ download_stats'.successful_downloads = download_stats.successful_downloads
             /\ download_stats'.failed_downloads >= download_stats.failed_downloads
             /\ dl.pc # "release" /\ dl'.pc = "release" =>
                   download_stats'.failed_downloads > download_stats.failed_downloads]_vars

\* a transfer returned True, verification rejected the file, the task has ended
VerificationRetryBoundWitness ==
    /\ dl.rejected_at > 0
    /\ dl.returned
    /\ dl.pc = "release"

----
(* The dispatch loop goes on *)

\* _download_file has returned for task t and its permit is given back
Ended(t) == (\E i \in 1..Len(startOrder) : startOrder[i] = t) /\ dl.task # t

----
(* The tracker after complete *)

\* C30: after complete(success) was called, every further update(chunk_size) is
\* a no-op: it changes neither the downloaded byte count nor any other state of
\* the tracker, and sends no message
UpdateAfterCompleteNoOp ==
    [][(~tracker.active /\ tracker'.completions = tracker.completions)
       => tracker' = tracker]_vars

\* the part that holds: no progress message after complete
NoProgressAfterComplete ==
    [][~tracker.active => tracker'.progress = tracker.progress]_vars

----
(* The bot at rest: no message, no task, nothing in hand.  The components
   below are driven on their own from this state. *)
InitIdle ==
    /\ max_concurrent_downloads = MaxConcurrent
    /\ msgs = [m \in Msgs |-> [NewMsg EXCEPT !.st = "none"]]
    /\ tasks = <<>>
    /\ download_queue = <<>>
    /\ download_semaphore = max_concurrent_downloads
    /\ active_downloads = {}
    /\ dl = IdleDl
    /\ tracker = NewTracker(0)
    /\ fs = [p \in Paths |-> Absent]
    /\ download_stats = NewStats
    /\ startOrder = <<>>
    /\ now = StartTime
    /\ rate_limiter = [k \in Keys |-> Never]
    /\ batch_trackers = [g \in Groups |-> 0]
    /\ pending_media_groups = {}
    /\ bts = <<>>
    /\ timers = [g \in Groups |-> 0]
    /\ procs = <<>>
    /\ created = <<>>

\* everything of the bot itself
botVars == <<max_concurrent_downloads, msgs, tasks, download_queue, download_semaphore,
             active_downloads, dl, tracker, fs, download_stats, startOrder, now,
             rate_limiter, batchVars>>

----
(* DownloadManager._verify_download on any file.  Sizes are in KB here. *)

\* the files the function can be given: a missing one, or one of 0..MaxFileKB KB
\* that can or cannot be opened, whose first and last 1 KB are or are not null
\* bytes only (an empty file has no bytes, a 1 KB file has one chunk)
VerifyInputs ==
    {v \in [exists : BOOLEAN, readable : BOOLEAN, size : 0..MaxFileKB,
            expected_size : 0..MaxFileKB, first_null : BOOLEAN, last_null : BOOLEAN,
            result : {"none"}] :
        /\ ~v.exists => ~v.readable /\ v.size = 0 /\ ~v.first_null /\ ~v.last_null
        /\ v.size = 0 => ~v.first_null /\ ~v.last_null
        /\ v.size = 1 => v.first_null = v.last_null}

\* if size > 2048: ... len(first_chunk.strip(b'\x00')) == 0 or the same of last_chunk
Padded(v) == v.size > TwoKB /\ (v.first_null \/ v.last_null)

InitVerify ==
    /\ InitIdle
    /\ verification \in VerifyInputs
    /\ stats_manager = NewStatsManager
    /\ limiter = NewLimiter
    /\ speed_limiter = NewSpeedLimiter(0)
    /\ shutdown = "running"
    /\ InitMore

\* success = await self._verify_download(file_path, expected_size)
VerifyCall ==
    /\ verification.result = "none"
    /\ verification' =
          [verification EXCEPT !.result =
              IF VerifyFile(verification.exists, verification.readable,
                            verification.size, verification.expected_size,
                            Padded(verification))
              THEN "True" ELSE "False"]
    /\ UNCHANGED <<botVars, stats_manager, limiter, speed_limiter, shutdown, moreVars>>

NextVerify == VerifyCall

SpecVerify == InitVerify /\ [][NextVerify]_vars

\* C27 as stated: _verify_download returns False exactly when the file does not
\* exist, or expected > 0 and 10 * actual < 9 * expected, or the file is over
\* 2 KB and its first or last 1 KB is null bytes only; True in every other case
VerifyExactlyThreeCases ==
    verification.result # "none"
    => ((verification.result = "False")
        <=> \/ ~verification.exists
            \/ /\ verification.expected_size > 0
               /\ 10 * verification.size < 9 * verification.expected_size
            \/ Padded(verification))

\* C27, amended: the same three cases and a fourth one, a file that exists but
\* cannot be opened or read
VerifyExactlyFourCases ==
    verification.result # "none"
    => ((verification.result = "False")
        <=> \/ ~verification.exists
            \/ /\ verification.expected_size > 0
               /\ 10 * verification.size < 9 * verification.expected_size
            \/ ~verification.readable
            \/ Padded(verification))

\* a file smaller than expected, within the tolerance, has been accepted
VerifyExactlyWitness ==
    /\ verification.result = "True"
    /\ verification.size < verification.expected_size

----
(* StatsManager: the statistics in memory and their file, with the process
   being killed and started again *)

InitStats ==
    /\ InitIdle
    /\ verification = NoVerification
    /\ stats_manager = NewStatsManager
    /\ limiter = NewLimiter
    /\ speed_limiter = NewSpeedLimiter(0)
    /\ shutdown = "running"
    /\ InitMore

\* StatsManager.update: the statistics in memory change
StatsChange ==
    /\ stats_manager.pc = "up"
    /\ stats_manager.total_downloads < MaxStatsChanges
    /\ stats_manager' = [stats_manager EXCEPT !.total_downloads = @ + 1]
    /\ UNCHANGED <<botVars, verification, limiter, speed_limiter, shutdown, moreVars>>

\* save_stats up to open(self.stats_file, 'w'): the file is created or truncated
SaveOpen ==
    /\ stats_manager.pc = "up"
    /\ stats_manager' =
          [stats_manager EXCEPT !.pc = "writing",
              !.file = [exists |-> TRUE,
                        total_downloads |-> stats_manager.total_downloads,
                        written |-> 0]]
    /\ UNCHANGED <<botVars, verification, limiter, speed_limiter, shutdown, moreVars>>

\* json.dump(stats_data, f, indent=4): one more piece of the text reaches the file
SaveWrite ==
    /\ stats_manager.pc = "writing"
    /\ stats_manager.file.written < RecordLen
    /\ stats_manager' = [stats_manager EXCEPT !.file.written = @ + 1]
    /\ UNCHANGED <<botVars, verification, limiter, speed_limiter, shutdown, moreVars>>

\* the with block ends, the thread returns, the lock is released
SaveClose ==
    /\ stats_manager.pc = "writing"
    /\ stats_manager.file.written = RecordLen
    /\ stats_manager' = [stats_manager EXCEPT !.pc = "up"]
    /\ UNCHANGED <<botVars, verification, limiter, speed_limiter, shutdown, moreVars>>

\* the process is killed, or the machine loses power
Crash ==
    /\ stats_manager.pc \in {"up", "writing"}
    /\ stats_manager' = [stats_manager EXCEPT !.pc = "down"]
    /\ UNCHANGED <<botVars, verification, limiter, speed_limiter, shutdown, moreVars>>

\* the next start: StatsManager.__init__, _load_stats (a text that does not
\* parse raises in json.load, which is caught: new statistics)
LoadStats ==
    /\ stats_manager.pc = "down"
    /\ LET file == stats_manager.file
           whole == file.exists /\ file.written = RecordLen
       IN stats_manager' =
             [stats_manager EXCEPT
                 !.pc = "up",
                 !.total_downloads = IF whole THEN file.total_downloads ELSE 0,
                 !.loaded = IF ~file.exists THEN "no file"
                            ELSE IF whole THEN "record" ELSE "broken"]
    /\ UNCHANGED <<botVars, verification, limiter, speed_limiter, shutdown, moreVars>>

NextStats ==
    \/ StatsChange
    \/ SaveOpen
    \/ SaveWrite
    \/ SaveClose
    \/ Crash
    \/ LoadStats

SpecStats == InitStats /\ [][NextStats]_vars

\* C23: a save is atomic: in no reachable state, a crash or a load between the
\* start and the end of save_stats included, does the statistics file hold a
\* truncated or partly written record; a reader finds a whole record
StatsFileNeverPartial ==
    /\ stats_manager.file.exists => stats_manager.file.written = RecordLen
    /\ stats_manager.loaded # "broken"

----
(* RateLimiter: coroutines calling can_update and wait_if_needed while time
   passes *)

\* everything but the clock, the timestamps and the limiter's callers
limiterFrame ==
    <<max_concurrent_downloads, msgs, tasks, download_queue, download_semaphore,
      active_downloads, dl, tracker, fs, download_stats, startOrder, batchVars,
      verification, stats_manager, speed_limiter, shutdown, moreVars>>

\* the interval is taken one second short
CanUpdateEarly(last, t) == last = Never \/ t - last >= min_interval - 1

\* if chat_id not in self.last_update ... if now - last >= self.min_interval
CanUpdateNow(last, t) == last = Never \/ t - last >= min_interval

\* RateLimiter.can_update: the whole call, it has no await under the lock
CanUpdate(c, key) ==
    /\ limiter.lock = 0
    /\ limiter.callers[c].pc = "out"
    /\ LET last == rate_limiter[key]
           ok == CanUpdateNow(last, now)
           after == IF ok THEN now ELSE last
       IN /\ rate_limiter' = [rate_limiter EXCEPT ![key] = after]
          /\ limiter' =
                [limiter EXCEPT
                    !.prev_true[key] = IF ok THEN limiter.last_true[key] ELSE @,
                    !.last_true[key] = IF ok THEN now ELSE @,
                    !.last_call = [key |-> key, result |-> ok, before |-> last,
                                   at |-> now, after |-> after]]
    /\ UNCHANGED <<now, limiterFrame>>

\* RateLimiter.wait_if_needed up to its await asyncio.sleep(wait_time), which is
\* inside `async with self.lock`; without a wait the call ends here
WaitBegin(c, key) ==
    /\ limiter.lock = 0
    /\ limiter.callers[c].pc = "out"
    /\ IF rate_limiter[key] # Never /\ now - rate_limiter[key] < min_interval
       THEN /\ limiter' =
                  [limiter EXCEPT
                      !.lock = c,
                      !.callers[c] = [pc |-> "sleeping", key |-> key,
                                      wake |-> rate_limiter[key] + min_interval]]
            /\ UNCHANGED rate_limiter
       ELSE /\ rate_limiter' = [rate_limiter EXCEPT ![key] = now]
            /\ UNCHANGED limiter
    /\ UNCHANGED <<now, limiterFrame>>

\* the sleep is over: self.last_update[chat_id] = time.time(), the lock is released
WaitEnd(c) ==
    /\ limiter.callers[c].pc = "sleeping"
    /\ now >= limiter.callers[c].wake
    /\ rate_limiter' = [rate_limiter EXCEPT ![limiter.callers[c].key] = now]
    /\ limiter' = [limiter EXCEPT !.lock = 0,
                                  !.callers[c] = NewLimiter.callers[c]]
    /\ UNCHANGED <<now, limiterFrame>>

\* time.time() moves on between two calls
LimiterTick ==
    /\ now < StartTime + MaxLimiterElapsed
    /\ now' = now + 1
    /\ UNCHANGED <<rate_limiter, limiter, limiterFrame>>

NextLimiter ==
    \/ LimiterTick
    \/ \E c \in Callers, key \in Keys : CanUpdate(c, key)
    \/ \E c \in Callers, key \in Keys : WaitBegin(c, key)
    \/ \E c \in Callers : WaitEnd(c)

InitLimiter ==
    /\ InitIdle
    /\ InitSide

SpecLimiter == InitLimiter /\ [][NextLimiter]_vars

\* C28: can_update(key) returns True exactly when the key has no timestamp or
\* now - last >= min_interval, and only then sets the timestamp to now; a False
\* result leaves it unchanged; so two True results for one key are never less
\* than min_interval apart, however the callers interleave
CanUpdateSpacing ==
    /\ LET call == limiter.last_call
       IN call.key # "none"
          => /\ call.result <=> (call.before = Never \/ call.at - call.before >= min_interval)
             /\ call.after = IF call.result THEN call.at ELSE call.before
    /\ \A k \in Keys : limiter.prev_true[k] # Never
                          => limiter.last_true[k] - limiter.prev_true[k] >= min_interval

\* can_update has answered True twice for one key and then False
CanUpdateSpacingWitness ==
    /\ limiter.last_call.key # "none"
    /\ ~limiter.last_call.result
    /\ limiter.prev_true[limiter.last_call.key] # Never

\* C29: wait_if_needed(k1) blocks only its own caller: while one caller sleeps
\* in it, a call of can_update for another key k2 whose interval has elapsed can
\* be made by another caller, and completes, before that sleep ends
WaitBlocksOnlyCaller ==
    \A c1, c2 \in Callers, k2 \in Keys :
        (/\ limiter.callers[c1].pc = "sleeping"
         /\ limiter.callers[c1].key # k2
         /\ limiter.callers[c2].pc = "out"
         /\ CanUpdateNow(rate_limiter[k2], now))
        => ENABLED CanUpdate(c2, k2)

----
(* SpeedLimiter.limit on the chunks of one transfer.  Time is in ticks of half
   a second and sizes are in Mb, so that the speeds and sleeps of the code are
   whole numbers. *)

OneSecond == 2
Speeds == {1, 2}
ChunkSizes == 1..MaxChunkMb

\* (current_speed_mbps / max_speed_mbps - 1) * elapsed, in ticks:
\* current_speed_mbps = bytes * 8 / (1024 * 1024 * elapsed), elapsed in seconds
SleepTime(bytes, elapsed, max_speed_mbps) ==
    IF bytes * OneSecond > max_speed_mbps * elapsed
    THEN (bytes * OneSecond) \div max_speed_mbps - elapsed
    ELSE 0

RECURSIVE AdmittedIn(_, _)
\* what was let through in the ticks from..to
AdmittedIn(from, to) ==
    IF from > to THEN 0 ELSE speed_limiter.admitted[from] + AdmittedIn(from + 1, to)

\* await speed_limiter.limit(len(chunk)), the sleep included; the chunk is
\* written when the call returns; the file has at most MaxFileMb Mb
Limit(chunk_size) ==
    LET sl == speed_limiter
        bytes == sl.bytes_since_check + chunk_size
        elapsed == sl.clock - sl.last_check
        back == IF elapsed >= OneSecond
                THEN sl.clock + SleepTime(bytes, elapsed, sl.max_speed_mbps)
                ELSE sl.clock
    IN /\ sl.max_speed_mbps # 0
       /\ back <= MaxSpeedTicks
       /\ AdmittedIn(0, MaxSpeedTicks) + chunk_size <= MaxFileMb
       /\ speed_limiter' =
             [sl EXCEPT !.bytes_since_check = IF elapsed >= OneSecond THEN 0 ELSE bytes,
                        !.last_check = IF elapsed >= OneSecond THEN back ELSE @,
                        !.clock = back,
                        !.admitted[back] = @ + chunk_size]
       /\ UNCHANGED <<botVars, verification, stats_manager, limiter, shutdown, moreVars>>

\* chunk = await response.content.read(self.chunk_size) takes its time
ReadWait ==
    /\ speed_limiter.clock < MaxSpeedTicks
    /\ speed_limiter' = [speed_limiter EXCEPT !.clock = @ + 1]
    /\ UNCHANGED <<botVars, verification, stats_manager, limiter, shutdown, moreVars>>

NextSpeed ==
    \/ ReadWait
    \/ \E chunk_size \in ChunkSizes : Limit(chunk_size)

InitSpeed ==
    /\ InitIdle
    /\ verification = NoVerification
    /\ stats_manager = NewStatsManager
    /\ limiter = NewLimiter
    /\ \E max_speed_mbps \in Speeds : speed_limiter = NewSpeedLimiter(max_speed_mbps)
    /\ shutdown = "running"
    /\ InitMore

SpecSpeed == InitSpeed /\ [][NextSpeed]_vars

\* C25: with max_speed_mbps = X > 0, what limit lets through in any window of 5
\* seconds is at most 1.15 * X Mbps, that is 5.75 * X Mb, whatever the chunk
\* sizes and arrival times
SpeedCapHolds ==
    \A from \in 0..MaxSpeedTicks :
        LET to == IF from + 5 * OneSecond - 1 > MaxSpeedTicks THEN MaxSpeedTicks
                  ELSE from + 5 * OneSecond - 1
        IN 4 * AdmittedIn(from, to) <= 23 * speed_limiter.max_speed_mbps

----
(* The wait before a retry *)

\* C26: between two consecutive transport attempts of a task, on either
\* transport, there is a backoff wait of retry_delay * 1.5^attempt * j with
\* attempt counted from 0 and j in [0.8, 1.2], unless a mandated rate-limit wait
\* replaces it: when round attempt + 1 of the loop is about to begin, at least
\* the shortest such wait has passed since round attempt began
BackoffBetweenAttempts ==
    (/\ dl.pc \in {"bot_try", "tele_try"}
     /\ dl.attempt > 0
     /\ dl.flooded # dl.attempts)
    => now - dl.began_at >= Backoff(dl.attempt - 1, 8)

\* the same on the Bot API transport only
BackoffBetweenBotApiAttempts ==
    (dl.pc = "bot_try" /\ dl.attempt > 0)
    => now - dl.began_at >= Backoff(dl.attempt - 1, 8)

----
(* The counters of a batch *)

\* C21: in every reachable state of a batch completed_files + failed_files <=
\* total_files: the terminal outcome of a member is counted once at most,
\* whatever error path its processing takes
BatchCountersBounded ==
    \A b \in DOMAIN bts :
        bts[b].completed_files + bts[b].failed_files <= bts[b].total_files

\* every file of batch b, registered for group g, has a task that has ended
MembersEnded(g, b) ==
    /\ bts[b].files # <<>>
    /\ \A i \in DOMAIN bts[b].files :
          \E t \in DOMAIN created : /\ created[t] = <<g, bts[b].files[i].file_id>>
                                    /\ Ended(t)

\* C22: every batch whose member tasks have all reached a terminal outcome is
\* finalized (complete() called) and removed from batch_trackers, in whatever
\* order the members finish and whether the last one succeeded or failed: once
\* nothing is left to run, no such batch is still registered
BatchFinalizedAtRest ==
    (~ENABLED NextBatch)
    => \A g \in Groups :
          batch_trackers[g] # 0 => ~MembersEnded(g, batch_trackers[g])

----
(* TelegramDownloader._shutdown while a download may be under way *)

\* run_async has left its loop: _shutdown saves the statistics and calls
\* TelegramBot.stop, which sets running = False and awaits save_stats, the
\* disconnection of the Telethon client and stop_polling
ShutdownBegin ==
    /\ shutdown = "running"
    /\ shutdown' = "stopping"
    /\ UNCHANGED <<botVars, verification, stats_manager, limiter, speed_limiter, moreVars>>

\* stop has returned: "Telegram Downloader shutdown complete", run_until_complete
\* returns and the event loop runs nothing more
ShutdownEnd ==
    /\ shutdown = "stopping"
    /\ shutdown' = "complete"
    /\ UNCHANGED <<botVars, verification, stats_manager, limiter, speed_limiter, moreVars>>

\* the tasks of the event loop run until the loop is left
NextShutdown ==
    \/ shutdown # "complete" /\ Next
    \/ ShutdownBegin
    \/ ShutdownEnd

SpecShutdown == InitRun /\ [][NextShutdown]_vars

\* C24: when shutdown completes no task remains in the downloading state: the
\* transfer that was in flight has reached its terminal outcome, or the task was
\* marked failed and its partial file deleted
ShutdownLeavesNoTransfer ==
    (shutdown = "complete" /\ dl.task # NoTask /\ dl.pc # "release")
    => /\ CurTask.status # "downloading"
       /\ ~Exists(CurTask.path)

----
(* A ProgressTracker beside another user of the shared RateLimiter *)

\* another holder of the limiter, the BatchProgressTracker of the same chat,
\* calls self.rate_limiter.can_update(self.chat_id)
OtherCanUpdate ==
    /\ CanUpdateNow(rate_limiter["chat"], now)
    /\ rate_limiter' = [rate_limiter EXCEPT !["chat"] = now]
    /\ UNCHANGED <<managerVars, now, tracker, batchVars>>

NextProgress ==
    \/ Tick
    \/ \E chunk_size \in 1..2, editOk \in BOOLEAN : Update(chunk_size, editOk)
    \/ OtherCanUpdate

SpecProgress == InitTracker /\ [][NextProgress]_vars

\* C31: update sends a progress message only when the tracker is active, at
\* least update_interval seconds have passed since its last emitted message and
\* the shared RateLimiter permits the chat: no progress message goes to a chat
\* for which the limiter would refuse an update
ProgressGated ==
    [][tracker'.progress > tracker.progress
       => /\ tracker.active
          /\ now - tracker.last_update_time >= progress_update_interval
          /\ CanUpdateNow(rate_limiter["chat"], now)]_vars

\* the first two conditions alone
ProgressGatedByInterval ==
    [][tracker'.progress > tracker.progress
       => /\ tracker.active
          /\ now - tracker.last_update_time >= progress_update_interval]_vars

----
(* A BatchProgressTracker on its own: update called as the files of the batch
   end, while time passes *)

batch_update_interval == 5

\* the bot but for its clock and its RateLimiter
botRest ==
    <<max_concurrent_downloads, msgs, tasks, download_queue, download_semaphore,
      active_downloads, dl, tracker, fs, download_stats, startOrder, batchVars>>

\* the components of the earlier sections
oldSide == <<verification, stats_manager, limiter, speed_limiter, shutdown>>

\* the text send_progress renders: the counters it shows
BatchText(b) == <<b.completed_files, b.failed_files>>

\* BatchProgressTracker.send_progress under the limiter timestamp last; the
\* result is <<tracker, timestamp>>
BatchSendProgress(b, last) ==
    IF ~b.active THEN <<b, last>>
    ELSE IF BatchText(b) # b.last_progress_message /\ CanUpdateNow(last, now)
         THEN <<[b EXCEPT !.last_progress_message = BatchText(b), !.sent = @ + 1], now>>
         ELSE <<b, last>>

\* BatchProgressTracker.update(completed=..., failed=...): the counters, the gate
\* with its can_update, then send_progress
BatchProgressUpdate(completed, failed) ==
    /\ completed + failed <= 1
    /\ batch_progress.completed_files + batch_progress.failed_files + completed + failed
          <= batch_progress.total_files
    /\ LET b == [batch_progress EXCEPT !.completed_files = @ + completed,
                                       !.failed_files = @ + failed]
           last == rate_limiter["chat"]
           gate == /\ now - b.last_update > batch_update_interval
                   /\ b.active
                   /\ CanUpdateNow(last, now)
           out == IF gate THEN BatchSendProgress([b EXCEPT !.last_update = now], now)
                  ELSE <<b, last>>
       IN /\ batch_progress' = out[1]
          /\ rate_limiter' = [rate_limiter EXCEPT !["chat"] = out[2]]
    /\ UNCHANGED <<now, botRest, oldSide, connection, batch_downloader, token_bucket,
                   async_limiter>>

\* BatchProgressTracker.complete: self.active = False
BatchProgressComplete ==
    /\ batch_progress.active
    /\ batch_progress.completed_files + batch_progress.failed_files
          = batch_progress.total_files
    /\ batch_progress' = [batch_progress EXCEPT !.active = FALSE]
    /\ UNCHANGED <<now, rate_limiter, botRest, oldSide, connection, batch_downloader,
                   token_bucket, async_limiter>>

NextBatchProgress ==
    \/ Tick
    \/ OtherCanUpdate
    \/ \E completed, failed \in 0..1 : BatchProgressUpdate(completed, failed)
    \/ BatchProgressComplete

InitBatchProgress ==
    /\ InitIdle
    /\ InitSide

SpecBatchProgress == InitBatchProgress /\ [][NextBatchProgress]_vars

\* C32: when update is called while the batch is active, more than
\* update_interval seconds after its last emission, the RateLimiter would permit
\* the chat and the rendered text differs from the last one sent, the combined
\* batch status message is sent during that call
BatchProgressSent ==
    [][(/\ BatchText(batch_progress') # BatchText(batch_progress)
        /\ batch_progress.active
        /\ now - batch_progress.last_update > batch_update_interval
        /\ CanUpdateNow(rate_limiter["chat"], now)
        /\ BatchText(batch_progress') # batch_progress.last_progress_message)
       => batch_progress'.sent > batch_progress.sent]_vars

\* update never sends the batch status message at all
BatchProgressNeverSent == batch_progress.sent = 0

----
(* Transport selection *)

\* C33: for every task the Telethon transport is used exactly when file_size
\* exceeds the threshold of 20 MB and the client is connected (the original
\* message is always present); otherwise the Bot API transport is used; one
\* transport only is used per task
OneTransportByRule ==
    /\ [](/\ dl.pc \in {"bot_try", "bot_stream", "bot_backoff"} => dl.transport = "botapi"
          /\ dl.pc \in {"tele_try", "tele_stream", "tele_backoff", "tele_flood"}
                => dl.transport = "telethon")
    /\ [][/\ \A telethon_available \in BOOLEAN :
                StartDownload(telethon_available)
                => /\ dl'.transport = "telethon"
                      <=> (telethon_available /\ CurTask.file_size > TelethonThreshold)
                   /\ dl'.transport = "botapi"
                      <=> ~(telethon_available /\ CurTask.file_size > TelethonThreshold)
          /\ (dl.transport # "none" /\ dl'.task = dl.task)
                => dl'.transport = dl.transport]_vars

\* a file over the threshold went through Telethon, all attempts included
OneTransportByRuleWitness ==
    /\ dl.transport = "telethon"
    /\ dl.pc = "release"
    /\ dl.attempts = max_retries + 1

----
(* What add_task tells *)

\* C34: add_task reports to its caller the queue position of the new task, the
\* number of tasks in the queue with the new one at its append, and edits the
\* status message of the task to show it exactly when the position is above 1
AddTaskReportsPosition ==
    \A m \in Msgs :
        (msgs[m].st = "done" /\ msgs[m].pos > 0)
        => /\ msgs[m].result = msgs[m].pos
           /\ msgs[m].edited <=> msgs[m].pos > 1

\* the second half alone: the position is shown exactly when it is above 1
PositionShownWhenQueued ==
    \A m \in Msgs :
        (msgs[m].st = "done" /\ msgs[m].pos > 0) => (msgs[m].edited <=> msgs[m].pos > 1)

----
(* Duplicates in the queue *)

\* C35: the download queue never holds two tasks with the same file_id: a media
\* message whose file_id is already queued is rejected, however the handlers
\* of concurrent messages interleave
QueueFileIdsUnique ==
    \A i, j \in DOMAIN download_queue :
        i # j => tasks[download_queue[i]].file_id # tasks[download_queue[j]].file_id

\* a message that finds its file_id in the queue is rejected
QueuedFileRejected ==
    [][\A m \in Msgs, fid \in FileIds :
          (HandleMedia(m, fid) /\ InQueue(fid)) => msgs'[m].st = "dup"]_vars

----
(* The members of a batch and its tasks *)

\* C36: every file accepted into a media-group batch (appended to its list and
\* counted in total_files) is enqueued as exactly one download task, so that
\* total_files is the number of tasks created for the batch, also for a file
\* whose message comes after the collection timer has fired and when two first
\* handlers of a group interleave: once nothing is left to run, it is so for
\* every batch still registered
BatchMembersAllTasked ==
    (~ENABLED NextBatch)
    => \A g \in Groups :
          LET b == batch_trackers[g]
          IN b # 0
             => /\ \A i \in DOMAIN bts[b].files : TasksFor(g, bts[b].files[i].file_id) = 1
                /\ bts[b].total_files
                      = Cardinality({t \in DOMAIN created : created[t][1] = g})

----
(* TelegramClientManager.check_connection *)

\* max_retries: int = 3 of check_connection; no caller passes another value
check_max_retries == 3
\* probes of one call and calls of check_connection that are followed
MaxProbes == 4
MaxChecks == 3

Outcomes == {"raise", "unauthorized", "empty", "ok"}

RECURSIVE Pow2(_)
Pow2(n) == IF n = 0 THEN 1 ELSE 2 * Pow2(n - 1)

connectionFrame ==
    <<botVars, oldSide, batch_progress, batch_downloader, token_bucket, async_limiter>>

\* the entry of check_connection: without a client, return await
\* self.initialize(); else retry_count = 0 and the while loop
CheckBegin(initOk) ==
    /\ connection.pc = "idle"
    /\ connection.calls < MaxChecks
    /\ connection' =
          IF ~connection.client
          THEN [connection EXCEPT !.pc = "returned", !.client = TRUE,
                                  !.connected = initOk, !.result = initOk,
                                  !.calls = @ + 1, !.probes = 0, !.slept = 0]
          ELSE [connection EXCEPT !.pc = "probe", !.retry_count = 0, !.probes = 0,
                                  !.slept = 0, !.calls = @ + 1]
    /\ UNCHANGED connectionFrame

\* one pass of the while loop body: connect if needed, is_user_authorized,
\* get_me.  Only the except branch counts a retry; a get_me that returns
\* nothing falls out of the try statement and the loop tests its condition again
Probe(outcome) ==
    /\ connection.pc = "probe"
    /\ connection.retry_count < check_max_retries
    /\ connection.probes < MaxProbes
    /\ connection' =
          CASE outcome = "ok" ->
                 [connection EXCEPT !.pc = "returned", !.connected = TRUE,
                                    !.result = TRUE]
            [] outcome = "unauthorized" ->
                 [connection EXCEPT !.pc = "returned", !.result = FALSE,
                                    !.probes = @ + 1]
            [] outcome = "empty" ->
                 [connection EXCEPT !.probes = @ + 1]
            [] outcome = "raise" ->
                 IF connection.retry_count + 1 < check_max_retries
                 THEN [connection EXCEPT !.pc = "sleep", !.retry_count = @ + 1,
                                         !.probes = @ + 1]
                 ELSE [connection EXCEPT !.pc = "returned", !.retry_count = @ + 1,
                                         !.probes = @ + 1, !.connected = FALSE,
                                         !.result = FALSE]
    /\ UNCHANGED connectionFrame

\* await asyncio.sleep(2 ** retry_count) is over: continue
BackoffEnd ==
    /\ connection.pc = "sleep"
    /\ connection' = [connection EXCEPT !.pc = "probe",
                                        !.slept = @ + Pow2(connection.retry_count)]
    /\ UNCHANGED connectionFrame

\* the caller has the result
CheckEnd ==
    /\ connection.pc = "returned"
    /\ connection' = [connection EXCEPT !.pc = "idle"]
    /\ UNCHANGED connectionFrame

NextConnection ==
    \/ \E initOk \in BOOLEAN : CheckBegin(initOk)
    \/ \E outcome \in Outcomes : Probe(outcome)
    \/ BackoffEnd
    \/ CheckEnd

InitConnection == InitIdle /\ InitSide

SpecConnection == InitConnection /\ [][NextConnection]_vars

\* C37: check_connection returns after at most max_retries unsuccessful probes,
\* whatever the probe does: a call never makes more unsuccessful probes than
\* max_retries
CheckConnectionBounded == connection.probes <= check_max_retries

\* the probes that raise are bounded by max_retries, and the call that has
\* counted max_retries of them has returned False
RaisingProbesBounded ==
    /\ connection.retry_count <= check_max_retries
    /\ connection.retry_count = check_max_retries
          => connection.pc \in {"returned", "idle"} /\ ~connection.result

----
(* TelegramMediaDownloader.download_batch *)

batchDownloaderFrame ==
    <<botVars, oldSide, batch_progress, connection, token_bucket, async_limiter>>

\* the downloads between __aenter__ and __aexit__ of self.download_semaphore
InTransfer(d) == {i \in Media : d.pc[i] \in {"transfer", "completing"}}

\* the value of the semaphore after __aexit__, which runs however the body
\* of the async with statement ended
ExitValueOnSuccess(value, raised) == IF raised THEN value ELSE value + 1
ExitValue(value, raised) == value + 1

\* download_batch: one download_media coroutine per media, asyncio.gather
DownloadBatch(n) ==
    /\ \A i \in Media : batch_downloader.pc[i] = "none"
    /\ batch_downloader' =
          [batch_downloader EXCEPT !.pc = [i \in Media |-> IF i <= n THEN "new" ELSE "none"]]
    /\ UNCHANGED batchDownloaderFrame

\* async with self.download_semaphore, no permit left: the coroutine waits
PermitWait(i) ==
    /\ batch_downloader.pc[i] = "new"
    /\ batch_downloader.download_semaphore = 0
    /\ batch_downloader' = [batch_downloader EXCEPT !.pc[i] = "waiting"]
    /\ UNCHANGED batchDownloaderFrame

\* async with self.download_semaphore: a permit is taken, then the file name,
\* the tracker and the call of client.download_media
PermitAcquire(i) ==
    /\ batch_downloader.pc[i] \in {"new", "waiting"}
    /\ batch_downloader.download_semaphore > 0
    /\ LET d == [batch_downloader EXCEPT !.pc[i] = "transfer",
                                         !.download_semaphore = @ - 1]
       IN batch_downloader' = [d EXCEPT !.peak = IF Cardinality(InTransfer(d)) > @
                                                 THEN Cardinality(InTransfer(d)) ELSE @]
    /\ UNCHANGED batchDownloaderFrame

\* await client.download_media(...) ends: it returns, raises an Exception
\* (logged, None returned) or the coroutine is cancelled
MediaTransfer(i, outcome) ==
    /\ batch_downloader.pc[i] = "transfer"
    /\ batch_downloader' =
          IF outcome = "ok"
          THEN [batch_downloader EXCEPT !.pc[i] = "completing"]
          ELSE [batch_downloader EXCEPT
                   !.pc[i] = "ended",
                   !.result[i] = IF outcome = "raise" THEN "None" ELSE "cancelled",
                   !.download_semaphore = ExitValue(@, TRUE)]
    /\ UNCHANGED batchDownloaderFrame

\* categorize and await progress_tracker.complete(): return filepath, or the
\* except branch
MediaComplete(i, ok) ==
    /\ batch_downloader.pc[i] = "completing"
    /\ batch_downloader' =
          [batch_downloader EXCEPT !.pc[i] = "ended",
                                   !.result[i] = IF ok THEN "filepath" ELSE "None",
                                   !.download_semaphore = ExitValue(@, ~ok)]
    /\ UNCHANGED batchDownloaderFrame

\* asyncio.gather(*download_tasks) has every result
Gather ==
    /\ ~batch_downloader.gathered
    /\ \E i \in Media : batch_downloader.pc[i] = "ended"
    /\ \A i \in Media : batch_downloader.pc[i] \in {"ended", "none"}
    /\ batch_downloader' = [batch_downloader EXCEPT !.gathered = TRUE]
    /\ UNCHANGED batchDownloaderFrame

NextBatchDownloader ==
    \/ \E n \in Media : DownloadBatch(n)
    \/ \E i \in Media : PermitWait(i)
    \/ \E i \in Media : PermitAcquire(i)
    \/ \E i \in Media, outcome \in {"ok", "raise", "cancel"} : MediaTransfer(i, outcome)
    \/ \E i \in Media, ok \in BOOLEAN : MediaComplete(i, ok)
    \/ Gather

InitBatchDownloader == InitIdle /\ InitSide

SpecBatchDownloader == InitBatchDownloader /\ [][NextBatchDownloader]_vars

\* C38: download_batch never has more than max_concurrent_downloads downloads
\* inside the transfer section, and every permit acquired is given back when
\* its download ends, by success or by raise: the permits out are exactly
\* those of the downloads inside
PermitsBalanced ==
    /\ Cardinality(InTransfer(batch_downloader)) <= BatchConcurrent
    /\ batch_downloader.download_semaphore
          = BatchConcurrent - Cardinality(InTransfer(batch_downloader))

\* a batch longer than the limit has filled the section, one download of it
\* raised, one succeeded, all have ended and every permit is back
PermitsBalancedWitness ==
    /\ batch_downloader.gathered
    /\ batch_downloader.peak = BatchConcurrent
    /\ \A i \in Media : batch_downloader.pc[i] = "ended"
    /\ \E i, j \in Media : /\ batch_downloader.result[i] = "None"
                           /\ batch_downloader.result[j] = "filepath"
    /\ batch_downloader.download_semaphore = BatchConcurrent

----
(* RateLimiter of telegram/rate_limiter.py: the token bucket *)

tokenBucketFrame ==
    <<botVars, oldSide, batch_progress, connection, batch_downloader, async_limiter>>

Min(a, b) == IF a <= b THEN a ELSE b

\* the timeout wait() is called with
wait_timeout == 2

\* if limit_group['tokens'] >= 1
HasAnyToken(tokens) == tokens > 0
HasToken(tokens) == tokens >= TokenScale

\* the group of key at time t, created full if it does not exist, and refilled:
\* min(burst_limit, tokens + time_since_last_refill * default_limit)
Refilled(limits, key, t) ==
    LET limit_group == IF limits[key].present THEN limits[key]
                       ELSE [present |-> TRUE, tokens |-> burst_limit * TokenScale,
                             last_refill |-> t]
        tokens_to_add == (t - limit_group.last_refill) * default_limit
    IN [limit_group EXCEPT !.tokens = Min(burst_limit * TokenScale, @ + tokens_to_add),
                           !.last_refill = t]

\* acquire(key) at time t: <<the buckets afterwards, the value returned>>
AcquireAt(limits, key, t) ==
    LET limit_group == Refilled(limits, key, t)
    IN IF HasToken(limit_group.tokens)
       THEN <<[limits EXCEPT ![key] = [limit_group EXCEPT !.tokens = @ - TokenScale]], TRUE>>
       ELSE <<[limits EXCEPT ![key] = limit_group], FALSE>>

\* what a call of acquire(key) leaves in the limiter
Acquired(tb, key) ==
    LET out == AcquireAt(tb.limits, key, tb.clock)
    IN [tb EXCEPT !.limits = out[1],
                  !.last_call = [key |-> key, present |-> tb.limits[key].present,
                                 tokens |-> tb.limits[key].tokens,
                                 last_refill |-> tb.limits[key].last_refill,
                                 at |-> tb.clock, result |-> out[2]]]

\* time.time() moves on
BucketTick ==
    /\ token_bucket.clock < MaxBucketClock
    /\ token_bucket' = [token_bucket EXCEPT !.clock = @ + 1]
    /\ UNCHANGED tokenBucketFrame

\* await limiter.acquire(key): the lock is never held across an await, so the
\* body runs in one piece
Acquire(key) ==
    /\ token_bucket' = Acquired(token_bucket, key)
    /\ UNCHANGED tokenBucketFrame

\* wait(key, timeout): start_time = time.time()
WaitToken(key) ==
    /\ token_bucket.waiter.pc = "idle"
    /\ token_bucket' = [token_bucket EXCEPT
                           !.waiter = [pc |-> "loop", key |-> key,
                                       start_time |-> token_bucket.clock,
                                       result |-> FALSE]]
    /\ UNCHANGED tokenBucketFrame

\* one round of the while loop of wait(): the deadline test, acquire, and
\* either return True or asyncio.sleep(0.1)
WaitTokenRound ==
    /\ token_bucket.waiter.pc = "loop"
    /\ LET w == token_bucket.waiter
       IN IF token_bucket.clock - w.start_time < wait_timeout
          THEN LET tb == Acquired(token_bucket, w.key)
               IN token_bucket' =
                     IF tb.last_call.result
                     THEN [tb EXCEPT !.waiter.pc = "idle", !.waiter.result = TRUE]
                     ELSE tb
          ELSE token_bucket' = [token_bucket EXCEPT !.waiter.pc = "idle",
                                                    !.waiter.result = FALSE]
    /\ UNCHANGED tokenBucketFrame

NextTokenBucket ==
    \/ BucketTick
    \/ \E key \in Keys : Acquire(key)
    \/ \E key \in Keys : WaitToken(key)
    \/ WaitTokenRound

InitTokenBucket == InitIdle /\ InitSide

SpecTokenBucket == InitTokenBucket /\ [][NextTokenBucket]_vars

\* the bucket of the last acquire, as the refill step left it
LastRefilled ==
    LET c == token_bucket.last_call
        before == IF c.present THEN c.tokens ELSE burst_limit * TokenScale
        elapsed == IF c.present THEN c.at - c.last_refill ELSE 0
    IN Min(burst_limit * TokenScale, before + elapsed * default_limit)

\* C39: the token count of every key stays within [0, burst_limit]; acquire(key)
\* returns True exactly when at least one whole token is there after the refill,
\* it then takes exactly one token of that key, and it leaves the buckets of
\* the other keys as they were
TokenBucketSound ==
    /\ [](/\ \A k \in Keys : /\ token_bucket.limits[k].tokens >= 0
                             /\ token_bucket.limits[k].tokens <= burst_limit * TokenScale
          /\ token_bucket.last_call.key \in Keys
                => LET c == token_bucket.last_call
                   IN /\ c.result = (LastRefilled >= TokenScale)
                      /\ token_bucket.limits[c.key].tokens
                            = IF c.result THEN LastRefilled - TokenScale
                              ELSE LastRefilled)
    /\ [][\A k \in Keys :
             token_bucket'.limits[k] # token_bucket.limits[k]
             => \/ Acquire(k)
                \/ token_bucket.waiter.key = k /\ WaitTokenRound]_vars

\* an acquire that found exactly one whole token, made of refilled parts, took
\* it, while the other key has a bucket of its own; an acquire was refused
\* before
TokenBucketSoundWitness ==
    LET c == token_bucket.last_call
    IN /\ c.key = "chat" /\ c.result /\ c.present
       /\ c.tokens < TokenScale
       /\ LastRefilled = TokenScale
       /\ token_bucket.limits["chat"].tokens = 0
       /\ token_bucket.limits["notify"].present
       /\ token_bucket.limits["notify"].tokens = burst_limit * TokenScale - TokenScale

----
(* AsyncRateLimiter of telegram/rate_limiter.py *)

asyncLimiterFrame ==
    <<botVars, oldSide, batch_progress, connection, batch_downloader, token_bucket>>

\* the body of call() from the lock on: wait_time, then either the sleep or
\* self._last_call[key] = time.time() and the call of func; waited tells
\* whether the caller had to wait for the lock
EnterCall(al, c, key, waited) ==
    LET wait_time == Max(0, interval - (al.clock - al.last_call[key]))
    IN IF wait_time > 0
       THEN [al EXCEPT !.lock = c,
                       !.callers[c] = [pc |-> "sleep", key |-> key,
                                       wake |-> al.clock + wait_time,
                                       waited |-> waited]]
       ELSE [al EXCEPT !.lock = c,
                       !.last_call[key] = al.clock,
                       !.callers[c] = [pc |-> "func", key |-> key, wake |-> 0,
                                       waited |-> waited]]

\* time.time() moves on
AsyncTick ==
    /\ async_limiter.clock < MaxAsyncClock
    /\ async_limiter' = [async_limiter EXCEPT !.clock = @ + 1]
    /\ UNCHANGED asyncLimiterFrame

\* call(func, key=key): async with self._lock, which is the one lock of the
\* limiter; a caller that finds it held waits for it
CallBegin(c, key) ==
    /\ async_limiter.callers[c].pc = "out"
    /\ async_limiter' =
          IF async_limiter.lock = 0
          THEN EnterCall(async_limiter, c, key, FALSE)
          ELSE [async_limiter EXCEPT !.callers[c] = [pc |-> "blocked", key |-> key,
                                                     wake |-> 0, waited |-> TRUE]]
    /\ UNCHANGED asyncLimiterFrame

\* the lock has been released: the waiting caller gets it
CallEnter(c) ==
    /\ async_limiter.callers[c].pc = "blocked"
    /\ async_limiter.lock = 0
    /\ async_limiter' = EnterCall(async_limiter, c, async_limiter.callers[c].key, TRUE)
    /\ UNCHANGED asyncLimiterFrame

\* await asyncio.sleep(wait_time) is over, inside the lock
CallSleepEnd(c) ==
    /\ async_limiter.callers[c].pc = "sleep"
    /\ async_limiter.clock >= async_limiter.callers[c].wake
    /\ async_limiter' = [async_limiter EXCEPT
                            !.last_call[async_limiter.callers[c].key] = async_limiter.clock,
                            !.callers[c].pc = "func"]
    /\ UNCHANGED asyncLimiterFrame

\* await func(*args, **kwargs) returns or raises, inside the lock; the lock is
\* released on the way out
CallEnd(c) ==
    /\ async_limiter.callers[c].pc = "func"
    /\ async_limiter' = [async_limiter EXCEPT
                            !.lock = 0,
                            !.callers[c] = [pc |-> "out", key |-> "none", wake |-> 0,
                                            waited |-> FALSE]]
    /\ UNCHANGED asyncLimiterFrame

NextAsyncLimiter ==
    \/ AsyncTick
    \/ \E c \in Callers, key \in Keys : CallBegin(c, key)
    \/ \E c \in Callers : CallEnter(c)
    \/ \E c \in Callers : CallSleepEnd(c)
    \/ \E c \in Callers : CallEnd(c)

InitAsyncLimiter == InitIdle /\ InitSide

SpecAsyncLimiter == InitAsyncLimiter /\ [][NextAsyncLimiter]_vars

\* C40: the groups are independent: a call for a key whose interval has
\* elapsed is never kept from its function by the sleep or the running
\* function of a call made for another key
GroupsIndependent ==
    \A c, d \in Callers :
       LET call == async_limiter.callers[c]
           other == async_limiter.callers[d]
       IN ~(/\ call.pc = "blocked"
            /\ async_limiter.clock - async_limiter.last_call[call.key] >= interval
            /\ other.pc \in {"sleep", "func"}
            /\ other.key # call.key)

\* calls of one limiter never overlap, whatever their keys
CallsSerialized ==
    \A c, d \in Callers :
       (/\ c # d
        /\ async_limiter.callers[c].pc \in {"sleep", "func"}
        /\ async_limiter.callers[d].pc \in {"sleep", "func"}) => FALSE


====
